---- MODULE Spec2Model ----
(***************************************************************************)
(* A model of avs_commons' persistence engine                              *)
(* (src/persistence/src/persistence.c): the three operation tables         *)
(* (persist, restore and ignore), the context and the public typed        *)
(* operations of the avs_persistence family. After it come, each with a   *)
(* specification of its own, the TLS sockets of src/unnamed/part_000 and   *)
(* src/net/src/mbedtls/mbedtls.c, the buffered network stream of           *)
(* src/stream/src/netbuf.c and the mock socket of src/unit/src/mocksock.c. *)
(*                                                                         *)
(* Byte strings (stream contents, buffers) are kept run-length encoded:    *)
(* a sequence of runs <<b, n>> (n >= 1 bytes of value b, adjacent runs of  *)
(* different values), so that a buffer of more than 2^32 bytes is a value  *)
(* the model can hold.                                                     *)
(***************************************************************************)
EXTENDS Integers, Sequences, FiniteSets, TLC

VARIABLES ctx, stream, call, errors, ssl, tls, net, mock

vars == <<ctx, stream, call, errors, ssl, tls, net, mock>>

\* the persistence engine's variables, and those of the other components
\* (ssl: the TLS socket of src/unnamed/part_000; tls: the TLS socket of
\* src/net/src/mbedtls/mbedtls.c; net: the buffered network stream of
\* src/stream/src/netbuf.c; mock: the mock socket of src/unit/src/mocksock.c)
persistence == <<ctx, stream, call, errors>>
components == <<ssl, tls, net, mock>>

\* a component that a specification leaves out stays idle
IDLE == [op |-> "idle"]

\* ------------------------------------------------------------------ bounds

\* longest explicit buffer / string / raw byte block the caller passes
MaxLen == 2
\* most elements of a caller's list or tree, and of a preloaded stream
MaxElems == 3
\* stream calls / allocations / handler calls after which a fault is injected
MaxFaultAt == 2

\* ------------------------------------------------------------ wide numbers
\* size_t, uint32_t and uint64_t values exceed the model checker's integers:
\* a number is held as its base-2^16 limbs, least significant first, with no
\* leading zero limb (0 is <<>>).

LIMB == 2 ^ 16

RECURSIVE W(_)
\* the wide number of a small integer
W(n) == IF n = 0 THEN <<>> ELSE <<n % LIMB>> \o W(n \div LIMB)

RECURSIVE WInt(_)
\* the small integer of a wide number that is one
WInt(a) == IF a = <<>> THEN 0 ELSE a[1] + LIMB * WInt(Tail(a))

RECURSIVE WNorm(_)
WNorm(a) ==
    IF a = <<>> THEN <<>>
    ELSE IF a[Len(a)] = 0 THEN WNorm(SubSeq(a, 1, Len(a) - 1)) ELSE a

WLimb(a, i) == IF i <= Len(a) THEN a[i] ELSE 0

WRest(a) == IF a = <<>> THEN <<>> ELSE Tail(a)

RECURSIVE WAddC(_, _, _)
WAddC(a, b, carry) ==
    IF a = <<>> /\ b = <<>> THEN (IF carry = 0 THEN <<>> ELSE <<carry>>)
    ELSE LET t == WLimb(a, 1) + WLimb(b, 1) + carry
         IN <<t % LIMB>> \o WAddC(WRest(a), WRest(b), t \div LIMB)

WAdd(a, b) == WAddC(a, b, 0)

RECURSIVE WSubB(_, _, _)
WSubB(a, b, borrow) ==
    IF a = <<>> THEN <<>>
    ELSE LET d == a[1] - WLimb(b, 1) - borrow
         IN <<IF d < 0 THEN d + LIMB ELSE d>>
            \o WSubB(Tail(a), WRest(b), IF d < 0 THEN 1 ELSE 0)

\* a - b, for a >= b
WSub(a, b) == WNorm(WSubB(a, b, 0))

RECURSIVE WLess(_, _)
WLess(a, b) ==
    IF Len(a) # Len(b) THEN Len(a) < Len(b)
    ELSE IF a = <<>> THEN FALSE
    ELSE IF a[Len(a)] # b[Len(b)] THEN a[Len(a)] < b[Len(b)]
    ELSE WLess(WNorm(SubSeq(a, 1, Len(a) - 1)), WNorm(SubSeq(b, 1, Len(b) - 1)))

WLeq(a, b) == a = b \/ WLess(a, b)

WMin(a, b) == IF WLess(a, b) THEN a ELSE b

\* 2^n
WPow2(n) == [i \in 1..(n \div 16) |-> 0] \o <<2 ^ (n % 16)>>

\* a mod 2^(16 * limbs): the conversion to an unsigned type of that width
WTrunc(a, limbs) == WNorm(SubSeq(a, 1, IF Len(a) < limbs THEN Len(a) ELSE limbs))

\* the (uint32_t) cast
uint32_t(a) == WTrunc(a, 2)

\* the i-th byte of a, byte 0 the least significant
WByte(a, i) ==
    LET l == WLimb(a, (i \div 2) + 1)
    IN IF i % 2 = 0 THEN l % 256 ELSE l \div 256

\* ------------------------------------------------------------- byte strings
\* run-length encoded: <<b, n>> is n >= 1 bytes of value b (n a wide number)

Run(b, n) == IF n = <<>> THEN <<>> ELSE << <<b, n>> >>

\* concatenation, merging the runs that meet when they hold the same byte
Cat(a, b) ==
    IF a = <<>> THEN b
    ELSE IF b = <<>> THEN a
    ELSE LET la == a[Len(a)]
             hb == b[1]
         IN IF la[1] = hb[1]
            THEN SubSeq(a, 1, Len(a) - 1) \o << <<la[1], WAdd(la[2], hb[2])>> >>
                 \o Tail(b)
            ELSE a \o b

RECURSIVE Bytes(_)
\* the byte string of an explicit sequence of bytes
Bytes(s) == IF s = <<>> THEN <<>> ELSE Cat(Run(s[1], W(1)), Bytes(Tail(s)))

RECURSIVE BytesLen(_)
BytesLen(r) == IF r = <<>> THEN <<>> ELSE WAdd(r[1][2], BytesLen(Tail(r)))

RECURSIVE TakeBytes(_, _)
\* the first n bytes (all of them when there are fewer)
TakeBytes(r, n) ==
    IF n = <<>> \/ r = <<>> THEN <<>>
    ELSE IF WLeq(r[1][2], n)
         THEN <<r[1]>> \o TakeBytes(Tail(r), WSub(n, r[1][2]))
         ELSE << <<r[1][1], n>> >>

RECURSIVE DropBytes(_, _)
DropBytes(r, n) ==
    IF n = <<>> \/ r = <<>> THEN r
    ELSE IF WLeq(r[1][2], n) THEN DropBytes(Tail(r), WSub(n, r[1][2]))
    ELSE << <<r[1][1], WSub(r[1][2], n)>> >> \o Tail(r)

\* the i-th byte, 1-based (i a wide number)
ByteAt(r, i) == DropBytes(r, WSub(i, W(1)))[1][1]

RECURSIVE Explode(_)
\* the explicit sequence of bytes of a (short) byte string
Explode(r) ==
    IF r = <<>> THEN <<>> ELSE <<r[1][1]>> \o Explode(DropBytes(r, W(1)))

\* ------------------------------------------------- big-endian conversions

\* avs_convert_be16/32/64 and a write of the result: the width-byte
\* big-endian encoding of value, most significant byte first
BE(value, width) == Bytes([j \in 1..width |-> WByte(value, width - j)])

RECURSIVE FromLE(_)
FromLE(s) ==
    IF s = <<>> THEN <<>>
    ELSE IF Len(s) = 1 THEN <<s[1]>>
    ELSE <<s[1] + 256 * s[2]>> \o FromLE(Tail(Tail(s)))

\* the value of a big-endian byte string
FromBE(r) ==
    LET s == Explode(r)
    IN WNorm(FromLE([j \in 1..Len(s) |-> s[Len(s) + 1 - j]]))

UINT32_LIMIT == WPow2(32)

\* ----------------------------------------------------------- the machine
\* What one call runs on: the bound stream, the fault schedule of the
\* environment (io/mem: calls that succeed before one fails, -1: never),
\* the heap, and the log of the calls made to the stream and the callbacks
\* (failed: a stream or handler call has failed; late: the stream and
\* handler calls begun after that; reads: the size each read asked for).

Machine(s, io, ioerr, mem, hfail, heap0) ==
    [stream |-> s, io |-> io, ioerr |-> ioerr, mem |-> mem, hfail |-> hfail,
     heap |-> heap0, next |-> 3, nread |-> 0, nwrite |-> 0,
     hcalls |-> <<>>, ccalls |-> <<>>, failed |-> FALSE, late |-> 0,
     reads |-> <<>>]

\* the log of a stream or handler call that begins
Begun(m) == [m EXCEPT !.late = IF m.failed THEN @ + 1 ELSE @]

Tick(n) == IF n > 0 THEN n - 1 ELSE n

\* avs_stream_write: all or nothing
avs_stream_write(m, bytes) ==
    IF m.io = 0
    THEN [m |-> [Begun(m) EXCEPT !.nwrite = @ + 1, !.failed = TRUE],
          ret |-> m.ioerr]
    ELSE [m |-> [Begun(m) EXCEPT !.nwrite = @ + 1, !.io = Tick(@),
                                 !.stream = Cat(@, bytes)],
          ret |-> 0]

\* avs_stream_read_reliably: the bytes read land in the caller's buffer; a
\* short read drains the stream and fails
avs_stream_read_reliably(m, n) ==
    IF m.io = 0
    THEN [m |-> [Begun(m) EXCEPT !.nread = @ + 1, !.failed = TRUE,
                                 !.reads = Append(@, n)],
          ret |-> m.ioerr, data |-> <<>>]
    ELSE [m |-> [Begun(m) EXCEPT !.nread = @ + 1, !.io = Tick(@),
                                 !.reads = Append(@, n),
                                 !.stream = DropBytes(@, n),
                                 !.failed = @ \/ ~WLeq(n, BytesLen(m.stream))],
          ret |-> IF WLeq(n, BytesLen(m.stream)) THEN 0 ELSE -1,
          data |-> TakeBytes(m.stream, n)]

\* malloc / AVS_LIST_NEW_BUFFER / AVS_RBTREE_ELEM_NEW_BUFFER: 0 is NULL
malloc(m) ==
    IF m.mem = 0
    THEN [m |-> m, ptr |-> 0]
    ELSE [m |-> [m EXCEPT !.mem = Tick(@), !.heap = @ \cup {m.next},
                          !.next = @ + 1],
          ptr |-> m.next]

free(m, ptr) == [m EXCEPT !.heap = @ \ {ptr}]

\* ------------------------------------------------------- results
\* An operation yields [m, ret, out]: the machine it leaves, its status and
\* its source or destination argument as it leaves it. The code after a call
\* is an operator of its own that takes the call's result.

\* the status of r with the argument untouched
Result(r, out) == [m |-> r.m, ret |-> r.ret, out |-> out]

\* Assigned if the read went straight into the destination
AssignedRegardless(r, out) ==
    [m |-> r.m, ret |-> r.ret, out |-> FromBE(r.data)]

\* Assigned if the bytes read were taken as a little-endian host holds them,
\* without avs_convert_be
AssignedUnconverted(r, out) ==
    [m |-> r.m, ret |-> r.ret,
     out |-> IF r.ret = 0 THEN WNorm(FromLE(Explode(r.data))) ELSE out]

\* if (!retval) { *out = avs_convert_be(tmp); }
Assigned(r, out) ==
    [m |-> r.m, ret |-> r.ret, out |-> IF r.ret = 0 THEN FromBE(r.data) ELSE out]

\* ------------------------------------------------------- PERSIST (store)

persist_bool(m, value) == Result(avs_stream_write(m, BE(W(value), 1)), value)

persist_bytes(m, buffer, buffer_size) ==
    Result(avs_stream_write(m, TakeBytes(buffer, buffer_size)), buffer)

\* persist_u16 if the value were converted where it lies
persist_u16_in_place(m, value) ==
    Result(avs_stream_write(m, BE(value, 2)),
           WNorm(FromLE(Explode(BE(value, 2)))))

persist_u16(m, value) == Result(avs_stream_write(m, BE(value, 2)), value)

\* persist_u32 if the value were written as a little-endian host holds it,
\* without avs_convert_be32
persist_u32_unconverted(m, value) ==
    Result(avs_stream_write(m, Bytes([j \in 1..4 |-> WByte(value, j - 1)])),
           value)

persist_u32(m, value) == Result(avs_stream_write(m, BE(value, 4)), value)

persist_u64(m, value) == Result(avs_stream_write(m, BE(value, 8)), value)

\* a float is held as its IEEE 754 bit pattern; avs_htonf yields the
\* big-endian bytes of that pattern
persist_float(m, value) == Result(avs_stream_write(m, BE(value, 4)), value)

persist_double(m, value) == Result(avs_stream_write(m, BE(value, 8)), value)

\* persist_sized_buffer_bytes if the payload were written whatever became of
\* the length
persist_sized_buffer_bytes_regardless(r, size32, buf) ==
    IF size32 # <<>>
    THEN Result(persist_bytes(r.m, buf.data, buf.size), buf)
    ELSE Result(r, buf)

\* if (!retval && size32 > 0) { retval = persist_bytes(...); }
persist_sized_buffer_bytes(r, size32, buf) ==
    IF r.ret = 0 /\ size32 # <<>>
    THEN Result(persist_bytes(r.m, buf.data, buf.size), buf)
    ELSE Result(r, buf)

\* buf = [ptr, size, data]: *data_ptr, *size_ptr and the bytes at *data_ptr.
\* A size that does not fit in 32 bits is logged and then persisted truncated.
persist_sized_buffer(m, buf) ==
    persist_sized_buffer_bytes(persist_u32(m, uint32_t(buf.size)),
                               uint32_t(buf.size), buf)

RECURSIVE strlen(_)
\* the number of bytes before the first NUL of the memory at a char pointer
strlen(mem) ==
    IF mem = <<>> \/ mem[1][1] = 0 THEN <<>>
    ELSE WAdd(mem[1][2], strlen(Tail(mem)))

\* persist_string if the terminator were not counted
persist_string_unterminated(m, str) ==
    Result(persist_sized_buffer(
               m, [ptr |-> str.ptr,
                   size |-> IF str.ptr # 0 THEN strlen(str.data) ELSE <<>>,
                   data |-> str.data]),
           str)

\* str = [ptr, data]: *string_ptr and the memory it points to
persist_string(m, str) ==
    Result(persist_sized_buffer(
               m, [ptr |-> str.ptr,
                   size |-> IF str.ptr # 0 THEN WAdd(strlen(str.data), W(1))
                            ELSE <<>>,
                   data |-> str.data]),
           str)

\* ------------------------------------------------------ RESTORE

\* the byte read lands in the bool itself
restore_bool_read(r, out) ==
    [m |-> r.m, ret |-> r.ret,
     out |-> IF r.data = <<>> THEN out ELSE WInt(FromBE(r.data))]

restore_bool(m, out) == restore_bool_read(avs_stream_read_reliably(m, W(1)), out)

\* What a read of the bool object yields once restore_bool has put the byte b
\* in it: 0 is false and 1 is true; any other byte is no value of the type,
\* the read of the object is undefined, and a build may take either branch.
bool_reads(b) ==
    IF b = 0 THEN {FALSE}
    ELSE IF b = 1 THEN {TRUE}
    ELSE BOOLEAN

\* the stream reads straight into the caller's buffer: a short read leaves
\* the bytes it got at its start
restore_bytes_read(r, buffer) ==
    [m |-> r.m, ret |-> r.ret,
     out |-> Cat(r.data, DropBytes(buffer, BytesLen(r.data)))]

restore_bytes(m, buffer, buffer_size) ==
    restore_bytes_read(avs_stream_read_reliably(m, buffer_size), buffer)

\* (the destination pointer is not null in restore mode: the null test of
\* restore_u16 always passes)
restore_u16(m, out) == Assigned(avs_stream_read_reliably(m, W(2)), out)

restore_u32(m, out) == Assigned(avs_stream_read_reliably(m, W(4)), out)

restore_u64(m, out) == Assigned(avs_stream_read_reliably(m, W(8)), out)

restore_float(m, out) == Assigned(avs_stream_read_reliably(m, W(4)), out)

restore_double(m, out) == Assigned(avs_stream_read_reliably(m, W(8)), out)

NULL_BUFFER == [ptr |-> 0, size |-> <<>>, data |-> <<>>]

\* restore_sized_buffer_read if a failed read freed the buffer and left the
\* pointer to it
restore_sized_buffer_dangling(b, ptr, size32, buf) ==
    IF b.ret # 0
    THEN [m |-> free(b.m, ptr), ret |-> b.ret, out |-> [buf EXCEPT !.ptr = ptr]]
    ELSE [m |-> b.m, ret |-> 0,
          out |-> [ptr |-> ptr, size |-> size32, data |-> b.out]]

\* if ((retval = restore_bytes(...))) { free; *data_ptr = NULL; }
\* else { *size_ptr = size32; }
restore_sized_buffer_read(b, ptr, size32, buf) ==
    IF b.ret # 0
    THEN [m |-> free(b.m, ptr), ret |-> b.ret, out |-> [buf EXCEPT !.ptr = 0]]
    ELSE [m |-> b.m, ret |-> 0,
          out |-> [ptr |-> ptr, size |-> size32, data |-> b.out]]

\* if (!(*data_ptr = malloc(size32))) { return -1; }
restore_sized_buffer_alloc(a, size32, buf) ==
    IF a.ptr = 0
    THEN [m |-> a.m, ret |-> -1, out |-> [buf EXCEPT !.ptr = 0]]
    ELSE restore_sized_buffer_read(restore_bytes(a.m, Run(0, size32), size32),
                                   a.ptr, size32, buf)

\* restore_sized_buffer_size if a failed read of the length were reported
\* as -1
restore_sized_buffer_size_flattening(r, buf) ==
    IF r.ret # 0 THEN [m |-> r.m, ret |-> -1, out |-> buf]
    ELSE IF r.out = <<>> THEN [m |-> r.m, ret |-> 0, out |-> buf]
    ELSE restore_sized_buffer_alloc(malloc(r.m), r.out, buf)

\* after restore_u32(ctx, &size32)
restore_sized_buffer_size(r, buf) ==
    IF r.ret # 0 THEN Result(r, buf)
    ELSE IF r.out = <<>> THEN [m |-> r.m, ret |-> 0, out |-> buf]
    ELSE restore_sized_buffer_alloc(malloc(r.m), r.out, buf)

\* entered with *data_ptr = NULL and *size_ptr = 0 (asserted)
restore_sized_buffer(m, buf) ==
    restore_sized_buffer_size(restore_u32(m, <<>>), buf)

NULL_STRING == [ptr |-> 0, data |-> <<>>]

\* restore_string_check without the terminator test
restore_string_unchecked(r) ==
    [m |-> r.m, ret |-> r.ret, out |-> [ptr |-> r.out.ptr, data |-> r.out.data]]

\* after restore_sized_buffer: the terminator test
restore_string_check(r) ==
    IF r.ret # 0
    THEN [m |-> r.m, ret |-> r.ret,
          out |-> [ptr |-> r.out.ptr, data |-> r.out.data]]
    ELSE IF r.out.size # <<>> /\ ByteAt(r.out.data, r.out.size) # 0
    THEN [m |-> free(r.m, r.out.ptr), ret |-> -1, out |-> NULL_STRING]
    ELSE [m |-> r.m, ret |-> 0,
          out |-> [ptr |-> r.out.ptr, data |-> r.out.data]]

restore_string(m, str) ==
    restore_string_check(
        restore_sized_buffer(m, [ptr |-> str.ptr, size |-> <<>>,
                                 data |-> str.data]))

\* ------------------------------------------------------ IGNORE

ignore_bool(m, out) == Result(avs_stream_read_reliably(m, W(1)), out)

PERSISTENCE_IGNORE_BYTES_BUFSIZE == 512

RECURSIVE ignore_bytes(_, _, _)
RECURSIVE ignore_bytes_chunk(_, _, _, _)
\* after the read of one chunk into the scratch buffer
ignore_bytes_chunk(r, buffer, buffer_size, chunk_to_ignore) ==
    IF r.ret # 0 THEN Result(r, buffer)
    ELSE ignore_bytes(r.m, buffer, WSub(buffer_size, chunk_to_ignore))

\* ignore_bytes if the whole size were asked of the stream at once
ignore_bytes_at_once(m, buffer, buffer_size) ==
    IF buffer_size # <<>>
    THEN ignore_bytes_chunk(avs_stream_read_reliably(m, buffer_size),
                            buffer, buffer_size, buffer_size)
    ELSE [m |-> m, ret |-> 0, out |-> buffer]

\* skips buffer_size bytes through the scratch buffer, a chunk at a time
ignore_bytes(m, buffer, buffer_size) ==
    IF buffer_size # <<>>
    THEN ignore_bytes_chunk(
             avs_stream_read_reliably(
                 m, WMin(buffer_size, W(PERSISTENCE_IGNORE_BYTES_BUFSIZE))),
             buffer, buffer_size,
             WMin(buffer_size, W(PERSISTENCE_IGNORE_BYTES_BUFSIZE)))
    ELSE [m |-> m, ret |-> 0, out |-> buffer]

\* ignore_u16 if the value read were stored through the pointer
ignore_u16_assigning(m, out) == Assigned(avs_stream_read_reliably(m, W(2)), out)

ignore_u16(m, out) == Result(avs_stream_read_reliably(m, W(2)), out)

ignore_u32(m, out) == Result(avs_stream_read_reliably(m, W(4)), out)

\* ignore_u64 if tmp were a uint32_t
ignore_u64_narrow(m, out) == Result(avs_stream_read_reliably(m, W(4)), out)

ignore_u64(m, out) == Result(avs_stream_read_reliably(m, W(8)), out)

ignore_float(m, out) == Result(avs_stream_read_reliably(m, W(4)), out)

ignore_double(m, out) == Result(avs_stream_read_reliably(m, W(8)), out)

\* ignore_sized_buffer_skip if the payload were left on the stream
ignore_sized_buffer_length_only(r, buf) == Result(r, buf)

\* if (!retval) { retval = ignore_bytes(ctx, NULL, size32); }
ignore_sized_buffer_skip(r, buf) ==
    IF r.ret = 0 THEN Result(ignore_bytes(r.m, <<>>, r.out), buf)
    ELSE Result(r, buf)

ignore_sized_buffer(m, buf) == ignore_sized_buffer_skip(restore_u32(m, <<>>), buf)

ignore_string(m, str) == Result(ignore_sized_buffer(m, NULL_BUFFER), str)

\* ------------------------------------------------------ the context

\* the operation table and direction each constructor installs
INIT_STORE_CONTEXT == [null |-> FALSE, direction |-> "STORE", table |-> "persist"]

INIT_RESTORE_CONTEXT == [null |-> FALSE, direction |-> "RESTORE", table |-> "restore"]

INIT_IGNORE_CONTEXT == [null |-> FALSE, direction |-> "RESTORE", table |-> "ignore"]

NULL_CONTEXT == [null |-> TRUE, direction |-> "UNKNOWN", table |-> "none"]

\* if (!ctx) { return AVS_PERSISTENCE_UNKNOWN; } return ctx->direction;
avs_persistence_direction(c) == IF c.null THEN "UNKNOWN" ELSE c.direction

\* context_after if a failed operation left the context skipping
context_after_latching(c, r) ==
    IF c.null \/ r.ret = 0 THEN c ELSE [c EXCEPT !.table = "ignore"]

\* The context as a typed operation leaves it: the operations read
\* ctx->stream and the table, and none writes a field of *ctx.
context_after(c, r) == c

\* handle if the ignore constructor had installed the operations of a store
handle_crossed(c, persist, restore, ignore) ==
    CASE c.table = "persist" -> persist
      [] c.table = "restore" -> restore
      [] c.table = "ignore"  -> persist

\* ctx->handle_...(ctx, ...): the operation the context's table holds, of
\* the three of its type
handle(c, persist, restore, ignore) ==
    CASE c.table = "persist" -> persist
      [] c.table = "restore" -> restore
      [] c.table = "ignore"  -> ignore

\* NoContext if the absent context were reported as success
NoContextAccepted(m, value) == [m |-> m, ret |-> 0, out |-> value]

\* if (!ctx) { return -1; }
NoContext(m, value) == [m |-> m, ret |-> -1, out |-> value]

avs_persistence_u16(c, m, value) ==
    IF c.null THEN NoContext(m, value)
    ELSE handle(c, persist_u16(m, value), restore_u16(m, value),
                ignore_u16(m, value))

avs_persistence_u32(c, m, value) ==
    IF c.null THEN NoContext(m, value)
    ELSE handle(c, persist_u32(m, value), restore_u32(m, value),
                ignore_u32(m, value))

avs_persistence_u64(c, m, value) ==
    IF c.null THEN NoContext(m, value)
    ELSE handle(c, persist_u64(m, value), restore_u64(m, value),
                ignore_u64(m, value))

avs_persistence_bool(c, m, value) ==
    IF c.null THEN NoContext(m, value)
    ELSE handle(c, persist_bool(m, value), restore_bool(m, value),
                ignore_bool(m, value))

avs_persistence_bytes(c, m, buffer, buffer_size) ==
    IF c.null THEN NoContext(m, buffer)
    ELSE handle(c, persist_bytes(m, buffer, buffer_size),
                restore_bytes(m, buffer, buffer_size),
                ignore_bytes(m, buffer, buffer_size))

avs_persistence_float(c, m, value) ==
    IF c.null THEN NoContext(m, value)
    ELSE handle(c, persist_float(m, value), restore_float(m, value),
                ignore_float(m, value))

avs_persistence_double(c, m, value) ==
    IF c.null THEN NoContext(m, value)
    ELSE handle(c, persist_double(m, value), restore_double(m, value),
                ignore_double(m, value))

avs_persistence_sized_buffer(c, m, buf) ==
    IF c.null THEN NoContext(m, buf)
    ELSE handle(c, persist_sized_buffer(m, buf),
                restore_sized_buffer(m, buf),
                ignore_sized_buffer(m, buf))

avs_persistence_string(c, m, str) ==
    IF c.null THEN NoContext(m, str)
    ELSE handle(c, persist_string(m, str), restore_string(m, str),
                ignore_string(m, str))

\* the one-byte block of raw bytes read back as the integer it is
ByteValue(r) == [m |-> r.m, ret |-> r.ret, out |-> FromBE(r.out)]

\* a one-byte integer is a one-byte block of raw bytes
avs_persistence_u8(c, m, value) ==
    IF c.null THEN NoContext(m, value)
    ELSE ByteValue(handle(c, persist_bytes(m, BE(value, 1), W(1)),
                          restore_bytes(m, BE(value, 1), W(1)),
                          ignore_bytes(m, BE(value, 1), W(1))))

\* a signed integer is [neg, mag]; its two's complement bit pattern, which
\* the pointer casts reinterpret, and back
\* ToUnsigned if the sign were a bit of its own beside the magnitude
ToSignAndMagnitude(v, bits) ==
    IF v.neg /\ v.mag # <<>> THEN WAdd(WPow2(bits - 1), v.mag) ELSE v.mag

ToUnsigned(v, bits) ==
    IF v.neg /\ v.mag # <<>> THEN WSub(WPow2(bits), v.mag) ELSE v.mag

ToSigned(u, bits) ==
    IF WLess(u, WPow2(bits - 1)) THEN [neg |-> FALSE, mag |-> u]
    ELSE [neg |-> TRUE, mag |-> WSub(WPow2(bits), u)]

\* the unsigned result seen through the signed pointer
Signed(r, bits) == [m |-> r.m, ret |-> r.ret, out |-> ToSigned(r.out, bits)]

avs_persistence_i8(c, m, value) ==
    IF c.null THEN NoContext(m, value)
    ELSE Signed(ByteValue(
                    handle(c, persist_bytes(m, BE(ToUnsigned(value, 8), 1), W(1)),
                           restore_bytes(m, BE(ToUnsigned(value, 8), 1), W(1)),
                           ignore_bytes(m, BE(ToUnsigned(value, 8), 1), W(1)))),
                8)

avs_persistence_i16(c, m, value) ==
    Signed(avs_persistence_u16(c, m, ToUnsigned(value, 16)), 16)

avs_persistence_i32(c, m, value) ==
    Signed(avs_persistence_u32(c, m, ToUnsigned(value, 32)), 32)

avs_persistence_i64(c, m, value) ==
    Signed(avs_persistence_u64(c, m, ToUnsigned(value, 64)), 64)

\* ------------------------------------------------------ collections
\* A list or tree is [size, elems]: its element count and its elements in
\* traversal order (a tree's in ascending key order); an element is
\* [id, key], its address and its content. NULL is the element of id 0.

NULL_ELEMENT == [id |-> 0, key |-> <<>>]

EMPTY_COLLECTION == [size |-> <<>>, elems |-> <<>>]

AVS_LIST_SIZE(list) == list.size

AVS_RBTREE_SIZE(tree) == tree.size

\* the element as the typed operation on its key leaves it
handler_key(r, element) ==
    [m |-> r.m, ret |-> r.ret, out |-> [element EXCEPT !.key = r.out]]

\* The caller's element handler: it marshals the element's 16-bit key with
\* the typed operation of the context it is given, and fails by itself on the
\* call the fault schedule names.
handler(c, m, element) ==
    IF Len(m.hcalls) = m.hfail
    THEN [m |-> [Begun(m) EXCEPT !.hcalls = Append(@, element.id),
                                 !.failed = TRUE],
          ret |-> -1, out |-> element]
    ELSE handler_key(
             avs_persistence_u16(
                 c, [Begun(m) EXCEPT !.hcalls = Append(@, element.id)],
                 element.key),
             element)

\* The caller's cleanup callback: releases what the element holds
cleanup_element(m, element) == [m EXCEPT !.ccalls = Append(@, element.id)]

RECURSIVE persist_foreach(_, _, _, _)
RECURSIVE persist_foreach_next(_, _, _, _)
\* persist_foreach_next without the break
persist_foreach_next_unbroken(c, h, elems, i) ==
    IF h.ret # 0 /\ i = Len(elems)
    THEN [m |-> h.m, ret |-> h.ret, elems |-> [elems EXCEPT ![i] = h.out]]
    ELSE persist_foreach(c, h.m, [elems EXCEPT ![i] = h.out], i + 1)

\* if ((retval = handler(ctx, element, handler_user_ptr))) { break; }
persist_foreach_next(c, h, elems, i) ==
    IF h.ret # 0
    THEN [m |-> h.m, ret |-> h.ret, elems |-> [elems EXCEPT ![i] = h.out]]
    ELSE persist_foreach(c, h.m, [elems EXCEPT ![i] = h.out], i + 1)

\* AVS_LIST_FOREACH / AVS_RBTREE_FOREACH with the handler, from element i on
persist_foreach(c, m, elems, i) ==
    IF i > Len(elems) THEN [m |-> m, ret |-> 0, elems |-> elems]
    ELSE persist_foreach_next(c, handler(c, m, elems[i]), elems, i)

\* the collection as the traversal leaves it
Traversed(e, coll) ==
    [m |-> e.m, ret |-> e.ret, out |-> [coll EXCEPT !.elems = e.elems]]

RECURSIVE Backwards(_)
Backwards(s) == IF s = <<>> THEN <<>> ELSE Append(Backwards(Tail(s)), Head(s))

\* persist_list_elements if the list were walked from its tail
persist_list_elements_backwards(c, r, list) ==
    IF r.ret = 0
    THEN Traversed(persist_foreach(c, r.m, Backwards(list.elems), 1), list)
    ELSE Result(r, list)

\* if (!retval) { AVS_LIST_FOREACH ... }
persist_list_elements(c, r, list) ==
    IF r.ret = 0 THEN Traversed(persist_foreach(c, r.m, list.elems, 1), list)
    ELSE Result(r, list)

\* persist_list without the test of the count against its 32-bit copy
persist_list_truncating(c, m, list, cleanup) ==
    persist_list_elements(c, persist_u32(m, uint32_t(AVS_LIST_SIZE(list))), list)

persist_list(c, m, list, cleanup) ==
    IF AVS_LIST_SIZE(list) # uint32_t(AVS_LIST_SIZE(list))
    THEN [m |-> m, ret |-> -1, out |-> list]
    ELSE persist_list_elements(c, persist_u32(m, uint32_t(AVS_LIST_SIZE(list))),
                               list)

\* persist_tree_elements if the tree were walked from its last element
persist_tree_elements_descending(c, r, tree) ==
    IF r.ret = 0
    THEN Traversed(persist_foreach(c, r.m, Backwards(tree.elems), 1), tree)
    ELSE Result(r, tree)

\* if (!retval) { AVS_RBTREE_FOREACH ... }
persist_tree_elements(c, r, tree) ==
    IF r.ret = 0 THEN Traversed(persist_foreach(c, r.m, tree.elems, 1), tree)
    ELSE Result(r, tree)

persist_tree(c, m, tree, cleanup) ==
    IF AVS_RBTREE_SIZE(tree) # uint32_t(AVS_RBTREE_SIZE(tree))
    THEN [m |-> m, ret |-> -1, out |-> tree]
    ELSE persist_tree_elements(c, persist_u32(m, uint32_t(AVS_RBTREE_SIZE(tree))),
                               tree)

\* AVS_LIST_INSERT at the tail
AVS_LIST_INSERT(list, element) ==
    [size |-> WAdd(list.size, W(1)), elems |-> Append(list.elems, element)]

RECURSIVE AVS_LIST_CLEAR(_, _)
\* AVS_LIST_CLEAR(list_ptr) { cleanup(*list_ptr); }: from the head, each
\* element is cleaned up and then deleted
AVS_LIST_CLEAR(m, elems) ==
    IF elems = <<>> THEN m
    ELSE AVS_LIST_CLEAR(free(cleanup_element(m, elems[1]), elems[1].id),
                        Tail(elems))

RECURSIVE restore_list_loop(_, _, _, _)
RECURSIVE restore_list_element(_, _, _, _)
RECURSIVE restore_list_inserted(_, _, _, _)
\* AVS_LIST_INSERT at the head
AVS_LIST_INSERT_AT_HEAD(list, element) ==
    [size |-> WAdd(list.size, W(1)), elems |-> <<element>> \o list.elems]

\* restore_list_inserted if insert_ptr were never advanced
restore_list_inserted_at_head(c, h, list, count) ==
    IF h.ret # 0
    THEN [m |-> h.m, ret |-> h.ret, out |-> AVS_LIST_INSERT_AT_HEAD(list, h.out)]
    ELSE restore_list_loop(c, h.m, AVS_LIST_INSERT_AT_HEAD(list, h.out),
                           WSub(count, W(1)))

\* the element is in the list when its handler runs
restore_list_inserted(c, h, list, count) ==
    IF h.ret # 0
    THEN [m |-> h.m, ret |-> h.ret, out |-> AVS_LIST_INSERT(list, h.out)]
    ELSE restore_list_loop(c, h.m, AVS_LIST_INSERT(list, h.out),
                           WSub(count, W(1)))

\* if (!element) { retval = -1; break; }
restore_list_element(c, a, list, count) ==
    IF a.ptr = 0 THEN [m |-> a.m, ret |-> -1, out |-> list]
    ELSE restore_list_inserted(c, handler(c, a.m, [id |-> a.ptr, key |-> <<>>]),
                               list, count)

\* while (count--) { ... } of restore_list
restore_list_loop(c, m, list, count) ==
    IF count = <<>> THEN [m |-> m, ret |-> 0, out |-> list]
    ELSE restore_list_element(c, malloc(m), list, count)

\* after restore_u32(ctx, &count)
restore_list_elements(c, r, list) ==
    IF r.ret = 0 THEN restore_list_loop(c, r.m, list, r.out) ELSE Result(r, list)

\* if (retval && cleanup) { AVS_LIST_CLEAR(list_ptr) { cleanup(*list_ptr); } }
restore_list_cleanup(l, cleanup) ==
    IF l.ret # 0 /\ cleanup
    THEN [m |-> AVS_LIST_CLEAR(l.m, l.out.elems), ret |-> l.ret,
          out |-> EMPTY_COLLECTION]
    ELSE l

\* entered with an empty list (asserted); cleanup may be absent
restore_list(c, m, list, cleanup) ==
    restore_list_cleanup(restore_list_elements(c, restore_u32(m, <<>>), list),
                         cleanup)

\* AVS_RBTREE_INSERT: the element itself (its id) when it went in, the
\* element already there when one with an equal key exists
AVS_RBTREE_INSERT(tree, element) ==
    IF \E i \in 1..Len(tree.elems) : tree.elems[i].key = element.key
    THEN [tree |-> tree,
          ret |-> (CHOOSE e \in {tree.elems[i] : i \in 1..Len(tree.elems)} :
                       e.key = element.key).id]
    ELSE [tree |-> [size |-> WAdd(tree.size, W(1)),
                    elems |-> SelectSeq(tree.elems,
                                        LAMBDA e : WLess(e.key, element.key))
                              \o <<element>>
                              \o SelectSeq(tree.elems,
                                           LAMBDA e : WLess(element.key, e.key))],
          ret |-> element.id]

\* cleanup(element); AVS_RBTREE_ELEM_DELETE_DETACHED(&element);
restore_tree_discard(m, element) == free(cleanup_element(m, element), element.id)

RECURSIVE restore_tree_loop(_, _, _, _)
RECURSIVE restore_tree_element(_, _, _, _)
RECURSIVE restore_tree_handled(_, _, _, _)
RECURSIVE restore_tree_inserted(_, _, _, _)
\* restore_tree_inserted if an element of an equal key were taken for inserted
restore_tree_merging(c, h, ins, count) ==
    restore_tree_loop(c, h.m, ins.tree, WSub(count, W(1)))

\* if (AVS_RBTREE_INSERT(tree, element) != element) { retval = -1; }
restore_tree_inserted(c, h, ins, count) ==
    IF ins.ret # h.out.id
    THEN [m |-> restore_tree_discard(h.m, h.out), ret |-> -1, out |-> ins.tree]
    ELSE restore_tree_loop(c, h.m, ins.tree, WSub(count, W(1)))

\* if (!(retval = handler(...))) { insert } if (retval) { discard; break; }
restore_tree_handled(c, h, tree, count) ==
    IF h.ret # 0
    THEN [m |-> restore_tree_discard(h.m, h.out), ret |-> h.ret, out |-> tree]
    ELSE restore_tree_inserted(c, h, AVS_RBTREE_INSERT(tree, h.out), count)

\* if (!element) { retval = -1; break; }
restore_tree_element(c, a, tree, count) ==
    IF a.ptr = 0 THEN [m |-> a.m, ret |-> -1, out |-> tree]
    ELSE restore_tree_handled(c, handler(c, a.m, [id |-> a.ptr, key |-> <<>>]),
                              tree, count)

\* while (count--) { ... } of restore_tree
restore_tree_loop(c, m, tree, count) ==
    IF count = <<>> THEN [m |-> m, ret |-> 0, out |-> tree]
    ELSE restore_tree_element(c, malloc(m), tree, count)

\* after restore_u32(ctx, &count)
restore_tree_elements(c, r, tree) ==
    IF r.ret = 0 THEN restore_tree_loop(c, r.m, tree, r.out) ELSE Result(r, tree)

RECURSIVE AVS_RBTREE_CLEAR(_, _)
\* AVS_RBTREE_CLEAR(tree) { cleanup(*tree); }: each element is cleaned up and
\* then deleted
AVS_RBTREE_CLEAR(m, elems) ==
    IF elems = <<>> THEN m
    ELSE AVS_RBTREE_CLEAR(free(cleanup_element(m, elems[1]), elems[1].id),
                          Tail(elems))

\* if (retval) { AVS_RBTREE_CLEAR(tree) { cleanup(*tree); } }
restore_tree_cleanup(t) ==
    IF t.ret # 0
    THEN [m |-> AVS_RBTREE_CLEAR(t.m, t.out.elems), ret |-> t.ret,
          out |-> EMPTY_COLLECTION]
    ELSE t

\* entered with an empty tree and a cleanup callback (asserted)
restore_tree(c, m, tree, cleanup) ==
    restore_tree_cleanup(restore_tree_elements(c, restore_u32(m, <<>>), tree))

RECURSIVE ignore_collection_loop(_, _, _)
RECURSIVE ignore_collection_next(_, _, _)
\* retval = handler(ctx, NULL, handler_user_ptr);
ignore_collection_next(c, h, count) ==
    IF h.ret # 0 THEN [m |-> h.m, ret |-> h.ret]
    ELSE ignore_collection_loop(c, h.m, WSub(count, W(1)))

\* ignore_collection_loop if the handler were given an element of the
\* caller's collection
ignore_collection_loop_on_element(c, m, count) ==
    IF count = <<>> THEN [m |-> m, ret |-> 0]
    ELSE ignore_collection_next(c, handler(c, m, [id |-> 1, key |-> <<>>]),
                                count)

\* while (!retval && count--)
ignore_collection_loop(c, m, count) ==
    IF count = <<>> THEN [m |-> m, ret |-> 0]
    ELSE ignore_collection_next(c, handler(c, m, NULL_ELEMENT), count)

\* after restore_u32(ctx, &count)
ignore_collection_count(c, r) ==
    IF r.ret # 0 THEN [m |-> r.m, ret |-> r.ret]
    ELSE ignore_collection_loop(c, r.m, r.out)

ignore_collection(c, m) == ignore_collection_count(c, restore_u32(m, <<>>))

ignore_list(c, m, list, cleanup) == Result(ignore_collection(c, m), list)

ignore_tree(c, m, tree, cleanup) == Result(ignore_collection(c, m), tree)

avs_persistence_list(c, m, list, cleanup) ==
    IF c.null THEN NoContext(m, list)
    ELSE handle(c, persist_list(c, m, list, cleanup),
                restore_list(c, m, list, cleanup),
                ignore_list(c, m, list, cleanup))

avs_persistence_tree(c, m, tree, cleanup) ==
    IF c.null THEN NoContext(m, tree)
    ELSE handle(c, persist_tree(c, m, tree, cleanup),
                restore_tree(c, m, tree, cleanup),
                ignore_tree(c, m, tree, cleanup))

\* ------------------------------------------------------ inputs

\* the status a failing stream call returns
IoErrors == {-1, -2}

NoFault == [io |-> -1, ioerr |-> -1, mem |-> -1, hfail |-> -1]

IoFaults(n) == {[NoFault EXCEPT !.io = k, !.ioerr = e] : k \in 0..n, e \in IoErrors}

MemFaults(n) == {[NoFault EXCEPT !.mem = k] : k \in 0..n}

HandlerFaults(n) == {[NoFault EXCEPT !.hfail = k] : k \in 0..n}

\* one stream call: it fails or not
ScalarFaults == {NoFault} \cup IoFaults(0)

\* a length and a payload, one allocation
BufferFaults(c) ==
    {NoFault} \cup IoFaults(1)
    \cup (IF c.table = "restore" THEN MemFaults(0) ELSE {})

CollectionFaults(c) ==
    {NoFault} \cup IoFaults(MaxFaultAt) \cup HandlerFaults(MaxFaultAt)
    \cup (IF c.table = "restore" THEN MemFaults(MaxFaultAt) ELSE {})

BoolValues == {0, 1}

U8Values == {W(0), W(255)}

U16Values == {W(1), W(48879)}

U32Values == {W(1), FromBE(Bytes(<<222, 173, 190, 239>>))}

U64Values == {W(0), FromBE(Bytes(<<1, 2, 3, 4, 5, 6, 7, 8>>))}

I8Values == {[neg |-> TRUE, mag |-> W(1)], [neg |-> FALSE, mag |-> W(127)]}

I16Values == {[neg |-> TRUE, mag |-> W(1)], [neg |-> FALSE, mag |-> W(258)]}

I32Values == {[neg |-> TRUE, mag |-> WPow2(31)], [neg |-> FALSE, mag |-> W(1)]}

I64Values == {[neg |-> TRUE, mag |-> W(1)], [neg |-> FALSE, mag |-> WPow2(40)]}

\* bit patterns: 1.0f and -0.0f, 1.0 and NaN
FloatValues == {FromBE(Bytes(<<63, 128, 0, 0>>)), FromBE(Bytes(<<128, 0, 0, 0>>))}

DoubleValues == {FromBE(Bytes(<<63, 240, 0, 0, 0, 0, 0, 0>>)),
                 FromBE(Bytes(<<127, 248, 0, 0, 0, 0, 0, 1>>))}

SeqsUpTo(S, n) == UNION {[1..k -> S] : k \in 0..n}

\* blocks of one, of one and a byte, of two and a byte scratch buffers
LongBlocks ==
    {Run(65, W(k)) : k \in {PERSISTENCE_IGNORE_BYTES_BUFSIZE,
                            PERSISTENCE_IGNORE_BYTES_BUFSIZE + 1,
                            2 * PERSISTENCE_IGNORE_BYTES_BUFSIZE + 1}}

ByteBlocks == {Bytes(b) : b \in SeqsUpTo({0, 65}, MaxLen)} \cup LongBlocks

\* the caller's buffers: absent, short, and longer than 32 bits can count
SizedBuffers ==
    {[ptr |-> IF b = <<>> THEN 0 ELSE 2, size |-> BytesLen(b), data |-> b] :
         b \in ByteBlocks}
    \cup {[ptr |-> 2, size |-> WAdd(UINT32_LIMIT, W(k)),
           data |-> Run(65, WAdd(UINT32_LIMIT, W(k)))] : k \in 0..MaxLen}

\* the caller's strings: absent, or the characters and their NUL
Strings ==
    {NULL_STRING}
    \cup {[ptr |-> 2, data |-> Cat(Bytes(t), Bytes(<<0>>))] :
              t \in SeqsUpTo({65, 66}, MaxLen)}

ElementsOf(keys) == [i \in 1..Len(keys) |-> [id |-> 100 + i, key |-> W(keys[i])]]

Lists ==
    {[size |-> W(Len(k)), elems |-> ElementsOf(k)] : k \in SeqsUpTo({1, 2}, MaxElems)}

IsAscending(k) == \A i \in 1..(Len(k) - 1) : k[i] < k[i + 1]

Trees ==
    {[size |-> W(Len(k)), elems |-> ElementsOf(k)] :
         k \in {q \in SeqsUpTo({1, 2, 3}, MaxElems) : IsAscending(q)}}

\* collections of more elements than 32 bits can count: their size and their
\* first elements
HugeCollections ==
    {[size |-> WAdd(UINT32_LIMIT, W(k)), elems |-> ElementsOf(<<1, 2>>)] :
         k \in 0..MaxLen}

RECURSIVE Flatten(_)
Flatten(ss) == IF ss = <<>> THEN <<>> ELSE Head(ss) \o Flatten(Tail(ss))

\* what a stream may hold that no store wrote: a 32-bit count or length,
\* then two-byte units, possibly too few, repeated or ill-terminated
Preloads ==
    {Cat(BE(n, 4), Bytes(Flatten(p))) :
         n \in {W(k) : k \in 0..(MaxElems + 1)} \cup {WSub(UINT32_LIMIT, W(1))},
         p \in SeqsUpTo({<<0, 0>>, <<0, 1>>, <<1, 0>>}, MaxElems)}
    \cup {Bytes(<<0, 0>>)}
    \cup {Bytes(<<b>>) : b \in {1, 2, 255}}

\* The arguments of a call. A store is given the caller's data; a restore
\* the empty destination its assertions demand; an ignore, or a call without
\* a context, a destination that holds something.
Args(c, all, held, empty) ==
    IF c.null THEN held
    ELSE IF c.table = "persist" THEN all
    ELSE IF c.table = "restore" THEN empty
    ELSE held

HeldBuffer == [ptr |-> 2, size |-> W(1), data |-> Bytes(<<65>>)]

HeldString == [ptr |-> 2, data |-> Bytes(<<65, 0>>)]

HeldCollection == [size |-> W(1), elems |-> ElementsOf(<<1>>)]

\* whether the caller passes a cleanup callback: restore_tree asserts one
Cleanups(c, op) ==
    IF c.null \/ c.table = "persist" THEN {TRUE}
    ELSE IF c.table = "restore" /\ op = "tree" THEN {TRUE}
    ELSE BOOLEAN

\* ------------------------------------------------------ the system
\* ctx: the caller's context (or none); stream: the unread content of the
\* stream it is bound to; call: the last typed operation, with the machine
\* it ran on and what it returned; errors: whether an operation made through
\* the context has failed since the context was made (a record of the past:
\* the program keeps no such state).

NO_CALL == [op |-> "none", typed |-> FALSE, fresh |-> TRUE]

Init ==
    /\ ctx = NULL_CONTEXT
    /\ stream = <<>>
    /\ call = NO_CALL
    /\ errors = FALSE
    /\ ssl = IDLE /\ tls = IDLE /\ net = IDLE /\ mock = IDLE

\* A context is made before a field is stored or read, and the storing one
\* deleted before the field is read back.
CanSwitch == ~call.typed \/ call.fresh

avs_persistence_store_context_new ==
    /\ ctx.null
    /\ ~call.typed
    /\ ctx' = INIT_STORE_CONTEXT
    /\ errors' = FALSE
    /\ UNCHANGED <<stream, call, components>>

avs_persistence_restore_context_new ==
    /\ ctx.null
    /\ CanSwitch
    /\ ctx' = INIT_RESTORE_CONTEXT
    /\ errors' = FALSE
    /\ UNCHANGED <<stream, call, components>>

avs_persistence_ignore_context_new ==
    /\ ctx.null
    /\ CanSwitch
    /\ ctx' = INIT_IGNORE_CONTEXT
    /\ errors' = FALSE
    /\ UNCHANGED <<stream, call, components>>

avs_persistence_context_delete ==
    /\ ~ctx.null
    /\ CanSwitch
    /\ ctx' = NULL_CONTEXT
    /\ errors' = FALSE
    /\ UNCHANGED <<stream, call, components>>

\* bytes that no store wrote are put on the empty stream
LoadStream ==
    /\ stream = <<>>
    /\ ~call.typed
    /\ \E bytes \in Preloads :
           /\ stream' = bytes
           /\ call' = NO_CALL
           /\ UNCHANGED <<ctx, errors, components>>

\* the stream is emptied for another field
StreamReset ==
    /\ call.typed
    /\ stream' = <<>>
    /\ call' = NO_CALL
    /\ UNCHANGED <<ctx, errors, components>>

\* One field per stream: a store starts on an empty stream; a stream is read
\* by one restore or ignore operation, of the type of the field a store wrote
\* there; a call without a context is tried on a stream not yet used. The
\* call records the value a successful store left on the stream it reads.
Stored == call.typed /\ call.fresh

CanCall(op) ==
    IF ctx.null THEN ~call.typed
    ELSE IF ctx.table = "persist" THEN stream = <<>> /\ ~call.typed
    ELSE IF call.typed THEN call.fresh /\ call.op = op
    ELSE TRUE

Entry(f) ==
    Machine(stream, f.io, f.ioerr, f.mem, f.hfail, IF ctx.null THEN {} ELSE {1})

\* the caller's variable as the call record keeps it: a record whatever the
\* type (buffers, strings, collections and signed integers are records)
Boxed(op, v) ==
    IF op = "bool" THEN [flag |-> v]
    ELSE IF op \in {"u8", "u16", "u32", "u64", "bytes", "float", "double"}
    THEN [value |-> v]
    ELSE v

Unboxed(op, b) ==
    IF op = "bool" THEN b.flag
    ELSE IF op \in {"u8", "u16", "u32", "u64", "bytes", "float", "double"}
    THEN b.value
    ELSE b

Called(op, arg, cleanup, f, r) ==
    /\ call' = [op |-> op, typed |-> TRUE, c |-> ctx, arg |-> Boxed(op, arg),
                fresh |-> ~ctx.null /\ ctx.table = "persist",
                stored |-> IF Stored /\ call.ret = 0 THEN <<call.arg>> ELSE <<>>,
                cleanup |-> cleanup, pre |-> Entry(f), post |-> r.m,
                ret |-> r.ret, out |-> Boxed(op, r.out),
                after_failure |-> errors]
    /\ stream' = r.m.stream
    /\ ctx' = context_after(ctx, r)
    /\ errors' = (errors \/ (~ctx.null /\ r.ret # 0))
    /\ UNCHANGED components

Call_u8 ==
    /\ CanCall("u8")
    /\ \E v \in U8Values, f \in ScalarFaults :
           Called("u8", v, FALSE, f, avs_persistence_u8(ctx, Entry(f), v))

Call_u16 ==
    /\ CanCall("u16")
    /\ \E v \in U16Values, f \in ScalarFaults :
           Called("u16", v, FALSE, f, avs_persistence_u16(ctx, Entry(f), v))

Call_u32 ==
    /\ CanCall("u32")
    /\ \E v \in U32Values, f \in ScalarFaults :
           Called("u32", v, FALSE, f, avs_persistence_u32(ctx, Entry(f), v))

Call_u64 ==
    /\ CanCall("u64")
    /\ \E v \in U64Values, f \in ScalarFaults :
           Called("u64", v, FALSE, f, avs_persistence_u64(ctx, Entry(f), v))

Call_i8 ==
    /\ CanCall("i8")
    /\ \E v \in I8Values, f \in ScalarFaults :
           Called("i8", v, FALSE, f, avs_persistence_i8(ctx, Entry(f), v))

Call_i16 ==
    /\ CanCall("i16")
    /\ \E v \in I16Values, f \in ScalarFaults :
           Called("i16", v, FALSE, f, avs_persistence_i16(ctx, Entry(f), v))

Call_i32 ==
    /\ CanCall("i32")
    /\ \E v \in I32Values, f \in ScalarFaults :
           Called("i32", v, FALSE, f, avs_persistence_i32(ctx, Entry(f), v))

Call_i64 ==
    /\ CanCall("i64")
    /\ \E v \in I64Values, f \in ScalarFaults :
           Called("i64", v, FALSE, f, avs_persistence_i64(ctx, Entry(f), v))

Call_bool ==
    /\ CanCall("bool")
    /\ \E v \in BoolValues, f \in ScalarFaults :
           Called("bool", v, FALSE, f, avs_persistence_bool(ctx, Entry(f), v))

Call_bytes ==
    /\ CanCall("bytes")
    /\ \E b \in ByteBlocks, f \in ScalarFaults :
           Called("bytes", b, FALSE, f,
                  avs_persistence_bytes(ctx, Entry(f), b, BytesLen(b)))

Call_float ==
    /\ CanCall("float")
    /\ \E v \in FloatValues, f \in ScalarFaults :
           Called("float", v, FALSE, f, avs_persistence_float(ctx, Entry(f), v))

Call_double ==
    /\ CanCall("double")
    /\ \E v \in DoubleValues, f \in ScalarFaults :
           Called("double", v, FALSE, f, avs_persistence_double(ctx, Entry(f), v))

\* restore_sized_buffer asserts an absent buffer on entry
Call_sized_buffer ==
    /\ CanCall("sized_buffer")
    /\ \E b \in Args(ctx, SizedBuffers, {HeldBuffer}, {NULL_BUFFER}),
          f \in BufferFaults(ctx) :
           /\ Called("sized_buffer", b, FALSE, f,
                     avs_persistence_sized_buffer(ctx, Entry(f), b))

\* restore_string passes its pointer on to restore_sized_buffer
Call_string ==
    /\ CanCall("string")
    /\ \E t \in Args(ctx, Strings, {HeldString}, {NULL_STRING}),
          f \in BufferFaults(ctx) :
           /\ Called("string", t, FALSE, f,
                     avs_persistence_string(ctx, Entry(f), t))

\* restore_list asserts an empty list on entry
Call_list ==
    /\ CanCall("list")
    /\ \E l \in Args(ctx, Lists \cup HugeCollections, {HeldCollection},
                     {EMPTY_COLLECTION}),
          cleanup \in Cleanups(ctx, "list"), f \in CollectionFaults(ctx) :
           /\ Called("list", l, cleanup, f,
                     avs_persistence_list(ctx, Entry(f), l, cleanup))

\* restore_tree asserts an empty tree and a cleanup callback on entry
Call_tree ==
    /\ CanCall("tree")
    /\ \E t \in Args(ctx, Trees \cup HugeCollections, {HeldCollection},
                     {EMPTY_COLLECTION}),
          cleanup \in Cleanups(ctx, "tree"), f \in CollectionFaults(ctx) :
           /\ Called("tree", t, cleanup, f,
                     avs_persistence_tree(ctx, Entry(f), t, cleanup))

Next ==
    \/ avs_persistence_store_context_new
    \/ avs_persistence_restore_context_new
    \/ avs_persistence_ignore_context_new
    \/ avs_persistence_context_delete
    \/ LoadStream
    \/ StreamReset
    \/ Call_u8
    \/ Call_u16
    \/ Call_u32
    \/ Call_u64
    \/ Call_i8
    \/ Call_i16
    \/ Call_i32
    \/ Call_i64
    \/ Call_bool
    \/ Call_bytes
    \/ Call_float
    \/ Call_double
    \/ Call_sized_buffer
    \/ Call_string
    \/ Call_list
    \/ Call_tree

Spec == Init /\ [][Next]_vars

\* ------------------------------------------------------ properties
\* Each is stated of the last typed operation: call.pre is the machine it
\* started on, call.post the one it left, call.arg and call.out its argument
\* before and after.

\* the last operation was op, through a context of the given table
In(table, op) ==
    call.typed /\ call.op = op /\ ~call.c.null /\ call.c.table = table

\* the last operation went through a context of the given table
Mode(table) == call.typed /\ ~call.c.null /\ call.c.table = table

\* the environment made no stream call, allocation or handler call fail
NoFaults(m) == m.io = -1 /\ m.mem = -1 /\ m.hfail = -1

\* the stream starts with a whole 32-bit count or length
HasCount(s) == WLeq(W(4), BytesLen(s))

DeclaredCount(s) == FromBE(TakeBytes(s, W(4)))

\* what follows the count or length
Payload(s) == DropBytes(s, W(4))

\* the 16-bit keys of the persisted elements: the whole two-byte units after
\* the count, as many as the count declares
PersistedKeys(s) ==
    LET units == Len(Explode(Payload(s))) \div 2
        n     == IF WLess(W(units), DeclaredCount(s)) THEN units
                 ELSE WInt(DeclaredCount(s))
    IN [i \in 1..n |-> FromBE(TakeBytes(DropBytes(Payload(s), W(2 * (i - 1))), W(2)))]

HasDuplicateKey(s) ==
    /\ HasCount(s)
    /\ \E i, j \in 1..Len(PersistedKeys(s)) :
           i < j /\ PersistedKeys(s)[i] = PersistedKeys(s)[j]

\* the handler itself failed, on its k-th call
HandlerFailedAt(k) ==
    call.pre.hfail = k - 1 /\ Len(call.post.hcalls) = k

\* the typed operation op of the public interface
TypedOperation(op, c, m, arg, cleanup) ==
    CASE op = "u8"  -> avs_persistence_u8(c, m, arg)
      [] op = "u16" -> avs_persistence_u16(c, m, arg)
      [] op = "u32" -> avs_persistence_u32(c, m, arg)
      [] op = "u64" -> avs_persistence_u64(c, m, arg)
      [] op = "i8"  -> avs_persistence_i8(c, m, arg)
      [] op = "i16" -> avs_persistence_i16(c, m, arg)
      [] op = "i32" -> avs_persistence_i32(c, m, arg)
      [] op = "i64" -> avs_persistence_i64(c, m, arg)
      [] op = "bool" -> avs_persistence_bool(c, m, arg)
      [] op = "bytes" -> avs_persistence_bytes(c, m, arg, BytesLen(arg))
      [] op = "float" -> avs_persistence_float(c, m, arg)
      [] op = "double" -> avs_persistence_double(c, m, arg)
      [] op = "sized_buffer" -> avs_persistence_sized_buffer(c, m, arg)
      [] op = "string" -> avs_persistence_string(c, m, arg)
      [] op = "list" -> avs_persistence_list(c, m, arg, cleanup)
      [] op = "tree" -> avs_persistence_tree(c, m, arg, cleanup)

\* the destination a restore of the field is given
RestoreDestination(op, arg) ==
    CASE op = "sized_buffer" -> NULL_BUFFER
      [] op = "string" -> NULL_STRING
      [] op \in {"list", "tree"} -> EMPTY_COLLECTION
      [] OTHER -> Unboxed(op, arg)

\* C1: a store-mode sized-buffer operation whose size does not fit in 32
\* bits returns failure and writes nothing to the stream, neither a
\* truncated length prefix nor a payload byte.
C1_OversizedStoreWritesNothing ==
    (In("persist", "sized_buffer") /\ ~WLess(call.arg.size, UINT32_LIMIT))
        => /\ call.ret # 0
           /\ call.post.stream = call.pre.stream

\* C2: a restore-mode list operation on a declared count N >= 2 whose
\* handler fails at its k-th call, k in 1..N, returns failure and leaves the
\* destination list with 0 elements.
C2_HandlerFailureEmptiesList ==
    (/\ In("restore", "list")
     /\ HasCount(call.pre.stream)
     /\ WLeq(W(2), DeclaredCount(call.pre.stream))
     /\ \E k \in 1..(MaxFaultAt + 1) :
            HandlerFailedAt(k) /\ WLeq(W(k), DeclaredCount(call.pre.stream)))
        => /\ call.ret # 0
           /\ AVS_LIST_SIZE(call.out) = <<>>
           /\ call.out.elems = <<>>

\* C3: a restore-mode tree operation on persisted elements that hold a
\* duplicate key returns failure and leaves the destination tree with
\* exactly 0 elements, wherever the duplicate stands.
C3_DuplicateKeyEmptiesTree ==
    (In("restore", "tree") /\ HasDuplicateKey(call.pre.stream))
        => /\ call.ret # 0
           /\ AVS_RBTREE_SIZE(call.out) = <<>>
           /\ call.out.elems = <<>>

\* C3 happens: without any fault, the third persisted element repeats a key
C3_Witness ==
    /\ In("restore", "tree")
    /\ HasDuplicateKey(call.pre.stream)
    /\ NoFaults(call.pre)
    /\ Len(call.post.hcalls) = 3
    /\ call.ret # 0
    /\ call.out = EMPTY_COLLECTION

\* C4: whenever a restore-mode list or tree operation returns failure,
\* whatever the cause and with or without a cleanup callback, the
\* destination collection has 0 elements.
C4_FailedRestoreLeavesEmptyCollection ==
    ((In("restore", "list") \/ In("restore", "tree")) /\ call.ret # 0)
        => /\ call.out.size = <<>>
           /\ call.out.elems = <<>>

\* C5: whenever a restore-mode sized-buffer, string, list or tree operation
\* returns failure, the live allocations after the call are those before it.
C5_FailedRestoreLeaksNothing ==
    (/\ Mode("restore")
     /\ call.op \in {"sized_buffer", "string", "list", "tree"}
     /\ call.ret # 0)
        => call.post.heap = call.pre.heap

\* the stream declares a length L > 0, holds L payload bytes, and the L-th
\* is not NUL
IllTerminated(s) ==
    /\ HasCount(s)
    /\ DeclaredCount(s) # <<>>
    /\ WLeq(DeclaredCount(s), BytesLen(Payload(s)))
    /\ ByteAt(Payload(s), DeclaredCount(s)) # 0

\* C6: a restore-mode string operation on a declared length L > 0 whose
\* L-th payload byte is not NUL returns failure, with the buffer it
\* allocated freed and the string pointer null.
C6_IllTerminatedStringRejected ==
    (In("restore", "string") /\ IllTerminated(call.pre.stream))
        => /\ call.ret # 0
           /\ call.out.ptr = 0
           /\ call.post.heap = call.pre.heap

\* C6 happens: the payload was read whole into a buffer, and turned down
C6_Witness ==
    /\ In("restore", "string")
    /\ IllTerminated(call.pre.stream)
    /\ DeclaredCount(call.pre.stream) = W(2)
    /\ NoFaults(call.pre)
    /\ call.post.next > call.pre.next
    /\ call.post.nread = 2
    /\ call.ret = -1
    /\ call.out.ptr = 0

\* C7: a restore-mode sized-buffer operation entered with a null pointer and
\* size 0 leaves them null and 0 when it fails; when it succeeds on a length
\* L > 0 it leaves a fresh buffer of exactly L bytes, and size L.
C7_RestoredBufferAllOrNothing ==
    In("restore", "sized_buffer")
        => /\ call.ret # 0 => (call.out.ptr = 0 /\ call.out.size = <<>>)
           /\ (call.ret = 0 /\ DeclaredCount(call.pre.stream) # <<>>)
                  => /\ call.out.ptr # 0
                     /\ call.out.ptr \notin call.pre.heap
                     /\ call.out.ptr \in call.post.heap
                     /\ call.out.size = DeclaredCount(call.pre.stream)
                     /\ BytesLen(call.out.data) = DeclaredCount(call.pre.stream)
                     /\ call.out.data = TakeBytes(Payload(call.pre.stream),
                                                  DeclaredCount(call.pre.stream))

\* C7 happens: the payload is shorter than the length, and the buffer
\* allocated for it is given up
C7_Witness ==
    /\ In("restore", "sized_buffer")
    /\ call.arg = NULL_BUFFER
    /\ NoFaults(call.pre)
    /\ HasCount(call.pre.stream)
    /\ WLess(BytesLen(Payload(call.pre.stream)), DeclaredCount(call.pre.stream))
    /\ call.post.next > call.pre.next
    /\ call.ret # 0
    /\ call.out = NULL_BUFFER

\* the last operation read, without a fault, the field a store of the same
\* type left on the stream
ReadsStoredField ==
    /\ call.typed
    /\ call.stored # <<>>
    /\ NoFaults(call.pre)
    /\ call.op = "bytes"
           => BytesLen(call.arg.value) = BytesLen(call.stored[1].value)

\* C8: on the bytes a store of any value of any type produced, the
\* ignore-mode operation succeeds and leaves the stream where the
\* restore-mode operation leaves it.
C8_IgnoreAdvancesLikeRestore ==
    (ReadsStoredField /\ call.c.table = "ignore")
        => /\ call.ret = 0
           /\ call.post.stream =
                  TypedOperation(call.op, INIT_RESTORE_CONTEXT, call.pre,
                                 RestoreDestination(call.op, call.arg),
                                 TRUE).m.stream

\* C8 happens: a stored string of two characters is skipped
C8_Witness ==
    /\ ReadsStoredField
    /\ call.c.table = "ignore"
    /\ call.op = "string"
    /\ BytesLen(call.stored[1].data) = W(3)
    /\ call.post.nread = 2
    /\ call.post.stream = <<>>
    /\ call.ret = 0

\* C9: no ignore-mode operation, successful or not, writes to its
\* destination argument or allocates anything.
C9_IgnoreLeavesDestination ==
    Mode("ignore")
        => /\ call.out = call.arg
           /\ call.post.heap = call.pre.heap
           /\ call.post.next = call.pre.next

\* C9 happens: a sized buffer is skipped past a destination that holds one
C9_Witness ==
    /\ In("ignore", "sized_buffer")
    /\ call.arg = HeldBuffer
    /\ call.post.nread = 2
    /\ call.ret = 0
    /\ call.out = HeldBuffer

\* C10: every typed operation called without a context returns failure,
\* reads and writes no stream, and calls no handler and no cleanup.
C10_NullContextFails ==
    (call.typed /\ call.c.null)
        => /\ call.ret # 0
           /\ call.post.stream = call.pre.stream
           /\ call.post.nread = 0
           /\ call.post.nwrite = 0
           /\ call.post.hcalls = <<>>
           /\ call.post.ccalls = <<>>

\* C10 happens: a list operation without a context, on a stream with bytes
C10_Witness ==
    /\ call.typed
    /\ call.c.null
    /\ call.op = "list"
    /\ call.pre.stream # <<>>
    /\ call.ret = -1

\* the mode of the constructor that installed the context's operation table
CreatedAs(c) ==
    CASE c.table = "persist" -> "STORE"
      [] c.table = "restore" -> "RESTORE"
      [] c.table = "ignore"  -> "IGNORE"

\* C11: at every point of a context's lifetime direction(ctx) reports the
\* mode it was created with: Store for a store context, Restore for a
\* restore context, and Ignore, a value distinct from Restore, for an ignore
\* context.
C11_DirectionReportsCreationMode ==
    ~ctx.null => avs_persistence_direction(ctx) = CreatedAs(ctx)

ScalarOps ==
    {"u8", "u16", "u32", "u64", "i8", "i16", "i32", "i64", "bool", "float",
     "double"}

\* C12: for every scalar type and value v, restoring from the bytes a store
\* of v produced succeeds and yields a value bit-for-bit equal to v.
C12_ScalarRoundTrip ==
    (ReadsStoredField /\ call.c.table = "restore" /\ call.op \in ScalarOps)
        => /\ call.ret = 0
           /\ call.out = call.stored[1]

\* C12 happens: 0xDEADBEEF is restored over a destination that held 1
C12_Witness ==
    /\ ReadsStoredField
    /\ call.c.table = "restore"
    /\ call.op = "u32"
    /\ call.stored[1].value = FromBE(Bytes(<<222, 173, 190, 239>>))
    /\ call.arg.value = W(1)
    /\ call.out = call.stored[1]
    /\ call.ret = 0

IntegerOps == {"u8", "u16", "u32", "u64", "i8", "i16", "i32", "i64"}

\* the width in bytes of the integer type of op
IntegerWidth(op) ==
    CASE op \in {"u8", "i8"} -> 1
      [] op \in {"u16", "i16"} -> 2
      [] op \in {"u32", "i32"} -> 4
      [] op \in {"u64", "i64"} -> 8

\* the bit pattern of the integer the call was given
IntegerBits(op, arg) ==
    IF op \in {"i8", "i16", "i32", "i64"}
    THEN ToUnsigned(arg, 8 * IntegerWidth(op))
    ELSE arg.value

\* C13: a successful store of an integer of width N writes exactly N bytes,
\* the most significant first; a successful restore or ignore of that type
\* consumes exactly N bytes.
C13_IntegerWireWidthAndOrder ==
    (call.typed /\ ~call.c.null /\ call.op \in IntegerOps /\ call.ret = 0)
        => IF call.c.table = "persist"
           THEN /\ BytesLen(call.post.stream) = W(IntegerWidth(call.op))
                /\ \A i \in 1..IntegerWidth(call.op) :
                       Explode(call.post.stream)[i]
                           = WByte(IntegerBits(call.op, call.arg),
                                   IntegerWidth(call.op) - i)
           ELSE /\ WLeq(W(IntegerWidth(call.op)), BytesLen(call.pre.stream))
                /\ call.post.stream
                       = DropBytes(call.pre.stream, W(IntegerWidth(call.op)))

\* C13 happens: the u32 0xDEADBEEF (limbs 0xBEEF, 0xDEAD) is stored as
\* DE AD BE EF
C13_Witness ==
    /\ In("persist", "u32")
    /\ call.arg.value = <<48879, 57005>>
    /\ call.ret = 0
    /\ Explode(call.post.stream) = <<222, 173, 190, 239>>

\* the two bytes the handler writes for an element, most significant first
ElementEncoding(e) == <<WInt(e.key) \div 256, WInt(e.key) % 256>>

\* the encodings of the elements, in their order
ElementEncodings(elems) ==
    Flatten([i \in 1..Len(elems) |-> ElementEncoding(elems[i])])

\* the 4-byte big-endian count of a collection of fewer than 256 elements
SmallCount(n) == <<0, 0, 0, n>>

\* C14: a store of a list of n elements whose handlers all succeed writes the
\* 4-byte big-endian count n, then the n element encodings in insertion
\* order, and nothing else, calling the handler once per element; for n = 0
\* the output is the 4 bytes 00 00 00 00.
C14_StoredListLayout ==
    (In("persist", "list") /\ call.ret = 0)
        => /\ Explode(call.post.stream)
                  = Explode(call.pre.stream)
                        \o SmallCount(Len(call.arg.elems))
                        \o ElementEncodings(call.arg.elems)
           /\ call.post.hcalls
                  = [i \in 1..Len(call.arg.elems) |-> call.arg.elems[i].id]
           /\ call.arg.elems = <<>>
                  => Explode(call.post.stream) = <<0, 0, 0, 0>>

\* C14 happens: a list with the keys 2, 1, 2 is stored
C14_Witness ==
    /\ In("persist", "list") /\ call.ret = 0
    /\ call.pre.stream = <<>>
    /\ Len(call.arg.elems) = 3
    /\ Explode(call.post.stream) = <<0, 0, 0, 3, 0, 2, 0, 1, 0, 2>>
    /\ call.post.hcalls = <<101, 102, 103>>

\* C14 happens for the empty list too
C14_EmptyWitness ==
    /\ In("persist", "list") /\ call.ret = 0
    /\ call.arg.elems = <<>>
    /\ Explode(call.post.stream) = <<0, 0, 0, 0>>
    /\ call.post.hcalls = <<>>

\* the characters of a present string and their terminator
Terminated(str) == TakeBytes(str.data, WAdd(strlen(str.data), W(1)))

\* what a store of the buffer leaves on the stream
C15_StoredBuffer ==
    (In("persist", "sized_buffer") /\ call.ret = 0
         /\ WLess(call.arg.size, UINT32_LIMIT))
        => /\ HasCount(call.post.stream)
           /\ DeclaredCount(call.post.stream) = call.arg.size
           /\ Payload(call.post.stream) = TakeBytes(call.arg.data, call.arg.size)
           /\ BytesLen(Payload(call.post.stream)) = call.arg.size
           /\ call.arg.size = <<>>
                  => Explode(call.post.stream) = <<0, 0, 0, 0>>

\* what a restore of a stored buffer yields
C15_RestoredBuffer ==
    (ReadsStoredField /\ call.c.table = "restore" /\ call.op = "sized_buffer"
         /\ WLess(call.stored[1].size, UINT32_LIMIT))
        => /\ call.ret = 0
           /\ call.out.size = call.stored[1].size
           /\ call.out.data = TakeBytes(call.stored[1].data, call.stored[1].size)
           /\ (call.stored[1].size = <<>>) = (call.out.ptr = 0)

\* what a store of the string leaves on the stream
C15_StoredString ==
    (In("persist", "string") /\ call.ret = 0)
        => IF call.arg.ptr = 0
           THEN Explode(call.post.stream) = <<0, 0, 0, 0>>
           ELSE /\ HasCount(call.post.stream)
                /\ DeclaredCount(call.post.stream)
                       = WAdd(strlen(call.arg.data), W(1))
                /\ Payload(call.post.stream) = Terminated(call.arg)

\* what a restore of a stored string yields
C15_RestoredString ==
    (ReadsStoredField /\ call.c.table = "restore" /\ call.op = "string")
        => /\ call.ret = 0
           /\ IF call.stored[1].ptr = 0
              THEN call.out = NULL_STRING
              ELSE /\ call.out.ptr # 0
                   /\ call.out.data = Terminated(call.stored[1])
                   /\ ByteAt(call.out.data, BytesLen(call.out.data)) = 0
                   /\ strlen(call.out.data) = strlen(call.stored[1].data)

\* C15: a buffer of length L <= 2^32-1 is stored as a 4-byte length followed
\* by exactly L bytes and restores to an equal buffer of length L; length 0
\* is stored as 4 zero bytes and restores with a null pointer and size 0; an
\* absent string is stored as length 0 and restores as absent; a present
\* string s is stored with length strlen(s)+1 and restores to a NUL-terminated
\* copy equal to s.
C15_BufferAndStringRoundTrip ==
    /\ C15_StoredBuffer
    /\ C15_RestoredBuffer
    /\ C15_StoredString
    /\ C15_RestoredString

\* C15 happens: the string "AB" stored with length 3 is restored
C15_Witness ==
    /\ ReadsStoredField /\ call.c.table = "restore" /\ call.op = "string"
    /\ Explode(call.pre.stream) = <<0, 0, 0, 3, 65, 66, 0>>
    /\ call.ret = 0
    /\ Explode(call.out.data) = <<65, 66, 0>>

\* C15 happens for a buffer of two bytes
C15_BufferWitness ==
    /\ ReadsStoredField /\ call.c.table = "restore" /\ call.op = "sized_buffer"
    /\ call.stored[1].size = W(2)
    /\ call.ret = 0
    /\ call.out.size = W(2) /\ call.out.data = call.stored[1].data

\* C15 happens for the empty buffer
C15_EmptyBufferWitness ==
    /\ ReadsStoredField /\ call.c.table = "restore" /\ call.op = "sized_buffer"
    /\ Explode(call.pre.stream) = <<0, 0, 0, 0>>
    /\ call.ret = 0
    /\ call.out = NULL_BUFFER

\* C15 happens for the absent and for the empty string
C15_AbsentStringWitness ==
    /\ ReadsStoredField /\ call.c.table = "restore" /\ call.op = "string"
    /\ call.stored[1] = NULL_STRING
    /\ call.ret = 0 /\ call.out = NULL_STRING

C15_EmptyStringWitness ==
    /\ ReadsStoredField /\ call.c.table = "restore" /\ call.op = "string"
    /\ Explode(call.pre.stream) = <<0, 0, 0, 1, 0>>
    /\ call.ret = 0 /\ call.out.ptr # 0 /\ Explode(call.out.data) = <<0>>

\* the keys of the elements, in their order
KeysOf(elems) == [i \in 1..Len(elems) |-> elems[i].key]

\* what a successful restore of a list leaves
C16_RestoredList ==
    (In("restore", "list") /\ call.ret = 0)
        => /\ HasCount(call.pre.stream)
           /\ W(Len(call.post.hcalls)) = DeclaredCount(call.pre.stream)
           /\ call.out.size = DeclaredCount(call.pre.stream)
           /\ W(Len(call.out.elems)) = DeclaredCount(call.pre.stream)
           /\ \A i \in 1..Len(call.out.elems) :
                  /\ call.post.hcalls[i] = call.out.elems[i].id
                  /\ call.out.elems[i].id \notin call.pre.heap
                  /\ call.out.elems[i].id \in call.post.heap
                  /\ \A j \in 1..Len(call.out.elems) :
                         call.out.elems[i].id = call.out.elems[j].id => i = j
           /\ KeysOf(call.out.elems) = PersistedKeys(call.pre.stream)

\* what a restore of a stored list yields
C16_ListRoundTrip ==
    (ReadsStoredField /\ In("restore", "list"))
        => /\ call.ret = 0
           /\ call.out.size = call.stored[1].size
           /\ KeysOf(call.out.elems) = KeysOf(call.stored[1].elems)

\* C16: a successful restore of a list into an empty destination reads the
\* count c, calls the handler exactly c times, each time on a fresh element
\* appended at the tail, and leaves exactly c elements in stream order; the
\* bytes a store of a list produced restore to a list of the same length
\* with the same elements in the same order.
C16_RestoreListInStreamOrder ==
    /\ C16_RestoredList
    /\ C16_ListRoundTrip

\* C16 happens: the stored list 2, 1, 2 is restored
C16_Witness ==
    /\ ReadsStoredField /\ In("restore", "list")
    /\ KeysOf(call.stored[1].elems) = <<W(2), W(1), W(2)>>
    /\ call.ret = 0
    /\ KeysOf(call.out.elems) = <<W(2), W(1), W(2)>>
    /\ Len(call.post.hcalls) = 3

\* the key of the element of the given identity
KeyOfId(elems, id) ==
    (CHOOSE e \in {elems[i] : i \in 1..Len(elems)} : e.id = id).key

\* the handler calls of a store of a tree: in strictly ascending key order,
\* at most once per element, all of them when the store succeeds, and only
\* after the count is on the stream
C17_StoredTree ==
    In("persist", "tree")
        => /\ \A i \in 1..Len(call.post.hcalls) :
                  /\ \E k \in 1..Len(call.arg.elems) :
                         call.arg.elems[k].id = call.post.hcalls[i]
                  /\ \A j \in 1..Len(call.post.hcalls) :
                         i < j => WLess(KeyOfId(call.arg.elems, call.post.hcalls[i]),
                                        KeyOfId(call.arg.elems, call.post.hcalls[j]))
           /\ call.post.hcalls # <<>>
                  => /\ HasCount(call.post.stream)
                     /\ DeclaredCount(call.post.stream) = call.arg.size
           /\ call.ret = 0
                  => /\ Len(call.post.hcalls) = Len(call.arg.elems)
                     /\ PersistedKeys(call.post.stream) = KeysOf(call.arg.elems)

\* what a restore of a stored tree yields
C17_TreeRoundTrip ==
    (ReadsStoredField /\ In("restore", "tree"))
        => /\ call.ret = 0
           /\ call.out.size = call.stored[1].size
           /\ W(Len(call.out.elems)) = call.stored[1].size
           /\ {call.out.elems[i].key : i \in 1..Len(call.out.elems)}
                  = {call.stored[1].elems[i].key :
                         i \in 1..Len(call.stored[1].elems)}

\* C17: a store of a sorted unique collection calls the handler on its
\* elements in strictly ascending key order, exactly once each, after
\* writing the count; restoring the produced bytes into an empty collection
\* succeeds and yields a collection of the same size and the same key set.
C17_TreeStoredAscendingAndRestored ==
    /\ C17_StoredTree
    /\ C17_TreeRoundTrip

\* C17 happens: the stored tree 1, 2, 3 is restored
C17_Witness ==
    /\ ReadsStoredField /\ In("restore", "tree")
    /\ Explode(call.pre.stream) = <<0, 0, 0, 3, 0, 1, 0, 2, 0, 3>>
    /\ call.ret = 0
    /\ KeysOf(call.out.elems) = <<W(1), W(2), W(3)>>

\* C17 happens on the storing side
C17_StoreWitness ==
    /\ In("persist", "tree") /\ call.ret = 0
    /\ KeysOf(call.arg.elems) = <<W(1), W(2), W(3)>>
    /\ call.post.hcalls = <<101, 102, 103>>

\* the element whose handler call the fault schedule makes fail during a
\* store of a collection (0: none): the handler fails by itself, or the
\* stream refuses the write of the element after accepting the count
FailingElement(m) ==
    IF m.hfail # -1 THEN m.hfail + 1
    ELSE IF m.io >= 1 THEN m.io
    ELSE 0

\* C18: a store of a collection (list or tree) of n elements whose handler
\* fails on element k, 1 <= k <= n, returns failure without calling the
\* handler on the elements after k, and the stream holds the count n,
\* uncorrected, followed by what the elements up to k wrote.
C18_FailedStoreKeepsCount ==
    (Mode("persist") /\ call.op \in {"list", "tree"}
         /\ WLess(call.arg.size, UINT32_LIMIT)
         /\ FailingElement(call.pre) \in 1..Len(call.arg.elems))
        => /\ call.ret # 0
           /\ call.post.hcalls
                  = [i \in 1..FailingElement(call.pre) |-> call.arg.elems[i].id]
           /\ Explode(call.post.stream)
                  = Explode(call.pre.stream)
                        \o SmallCount(Len(call.arg.elems))
                        \o ElementEncodings(
                               SubSeq(call.arg.elems, 1,
                                      FailingElement(call.pre) - 1))

\* C18 happens: the handler fails on the second of three elements of a list
C18_Witness ==
    /\ In("persist", "list")
    /\ Len(call.arg.elems) = 3
    /\ call.pre.hfail = 1
    /\ call.ret # 0
    /\ call.post.hcalls = <<101, 102>>
    /\ Explode(call.post.stream) = <<0, 0, 0, 3, 0, 2>>

\* C18 happens for a tree, the stream refusing the first element
C18_TreeWitness ==
    /\ In("persist", "tree")
    /\ Len(call.arg.elems) = 2
    /\ call.pre.io = 1
    /\ call.ret # 0
    /\ call.post.hcalls = <<101>>
    /\ Explode(call.post.stream) = <<0, 0, 0, 2>>

\* C19: a store of a collection (list or tree) whose element count does not
\* fit in 32 bits returns failure before any byte is written to the stream
\* and before the handler is called on any element.
C19_OversizedCollectionRejectedFirst ==
    (Mode("persist") /\ call.op \in {"list", "tree"}
         /\ ~WLess(call.arg.size, UINT32_LIMIT))
        => /\ call.ret # 0
           /\ call.post.stream = call.pre.stream
           /\ call.post.nwrite = call.pre.nwrite
           /\ call.post.hcalls = <<>>

\* C19 happens: a list of 2^32 elements is given to a store
C19_Witness ==
    /\ In("persist", "list")
    /\ call.arg.size = UINT32_LIMIT
    /\ NoFaults(call.pre)
    /\ call.ret = -1
    /\ call.post.stream = <<>>
    /\ call.post.hcalls = <<>>

\* C19 happens for a tree of 2^32 + 1 elements
C19_TreeWitness ==
    /\ In("persist", "tree")
    /\ call.arg.size = WAdd(UINT32_LIMIT, W(1))
    /\ NoFaults(call.pre)
    /\ call.ret = -1
    /\ call.post.stream = <<>>
    /\ call.post.hcalls = <<>>

Least(S) == CHOOSE x \in S : \A y \in S : x <= y

\* the handler call that fails first while a collection is ignored on the
\* machine m, were the count large enough: the one the handler fails by
\* itself, the one whose read the stream refuses, or the one that finds less
\* than a whole element left after the count
FirstFailingCall(m) ==
    Least({Len(Explode(Payload(m.stream))) \div 2 + 1}
          \cup (IF m.hfail # -1 THEN {m.hfail + 1} ELSE {})
          \cup (IF m.io >= 1 THEN {m.io} ELSE {}))

\* the handler calls that read an element: all but one the handler fails by
\* itself
ReadingCalls(m, calls) ==
    IF m.hfail # -1 /\ m.hfail < calls THEN calls - 1 ELSE calls

\* C20: an ignore-mode collection operation (list or tree) reads only the
\* 32-bit count c, then calls the handler with an absent element exactly c
\* times when no call fails and stops at the first failing call; it
\* allocates nothing and never calls the cleanup callback.
C20_IgnoredCollection ==
    (Mode("ignore") /\ call.op \in {"list", "tree"})
        => /\ \A i \in 1..Len(call.post.hcalls) :
                  call.post.hcalls[i] = NULL_ELEMENT.id
           /\ IF ~HasCount(call.pre.stream) \/ call.pre.io = 0
              THEN call.ret # 0 /\ call.post.hcalls = <<>>
                   /\ call.post.nread = 1
              ELSE /\ IF WLess(W(FirstFailingCall(call.pre) - 1),
                               DeclaredCount(call.pre.stream))
                      THEN /\ call.ret # 0
                           /\ Len(call.post.hcalls) = FirstFailingCall(call.pre)
                      ELSE /\ call.ret = 0
                           /\ W(Len(call.post.hcalls))
                                  = DeclaredCount(call.pre.stream)
                   /\ call.post.nread
                          = 1 + ReadingCalls(call.pre, Len(call.post.hcalls))
           /\ call.post.heap = call.pre.heap
           /\ call.post.next = call.pre.next
           /\ call.post.mem = call.pre.mem
           /\ call.post.ccalls = <<>>
           /\ call.out = call.arg

\* C20 happens: a list of three elements is ignored with three handler calls
C20_Witness ==
    /\ In("ignore", "list")
    /\ call.cleanup
    /\ Explode(call.pre.stream) = <<0, 0, 0, 3, 0, 2, 0, 1, 0, 2>>
    /\ call.ret = 0
    /\ call.post.hcalls = <<0, 0, 0>>
    /\ call.post.stream = <<>>
    /\ call.post.ccalls = <<>>

\* C20 happens: the second of three handler calls fails while a tree is
\* ignored
C20_FailureWitness ==
    /\ In("ignore", "tree")
    /\ call.cleanup
    /\ DeclaredCount(call.pre.stream) = W(3)
    /\ call.pre.hfail = 1
    /\ call.ret # 0
    /\ call.post.hcalls = <<0, 0>>
    /\ call.post.ccalls = <<>>

\* a byte is there for the restore of a bool to read
OneByteReadable(m) == m.io # 0 /\ m.stream # <<>>

\* the restore of a bool accepts every byte and leaves it as it is
C21_AnyByteAccepted ==
    (In("restore", "bool") /\ OneByteReadable(call.pre))
        => /\ call.ret = 0
           /\ call.out.flag = ByteAt(call.pre.stream, W(1))

StreamRefused ==
    /\ call.pre.io >= 0
    /\ call.post.nread + call.post.nwrite > call.pre.io

\* C22: when a stream write or reliable read returns a non-zero status r
\* inside a typed operation, the operation returns exactly r; an operation
\* that returns 0 saw no stream call fail.
C22_StreamStatusPropagated ==
    (call.typed /\ ~call.c.null)
        => /\ StreamRefused => call.ret = call.pre.ioerr
           /\ call.ret = 0 => ~StreamRefused
           /\ (NoFaults(call.pre) /\ call.ret # 0
                   /\ In("restore", call.op)
                   /\ call.op \in ScalarOps \cup {"sized_buffer"})
                  => call.ret = -1

\* C22 happens: the stream refuses the payload of a sized buffer with the
\* status -2, and the restore returns -2
C22_Witness ==
    /\ In("restore", "sized_buffer")
    /\ StreamRefused
    /\ call.pre.io = 1 /\ call.pre.ioerr = -2
    /\ call.post.nread = 2
    /\ call.ret = -2

\* C22 happens: the stream refuses the length of a stored sized buffer
C22_StoreWitness ==
    /\ In("persist", "sized_buffer")
    /\ StreamRefused
    /\ call.pre.io = 0 /\ call.pre.ioerr = -2
    /\ call.ret = -2

WideSignedOps == {"i16", "i32", "i64"}

UnsignedOpOf(op) ==
    CASE op = "i16" -> "u16"
      [] op = "i32" -> "u32"
      [] op = "i64" -> "u64"

\* the n bytes of the two's complement of a signed integer, most significant
\* first: those of the magnitude, or for a negative one the inverted bytes
\* of the magnitude less one
TwosComplement(v, n) ==
    [i \in 1..n |->
         IF v.neg /\ v.mag # <<>>
         THEN 255 - WByte(WSub(v.mag, W(1)), n - i)
         ELSE WByte(v.mag, n - i)]

\* the signed integer is one of the type, written in one way (no -0)
InSignedRange(v, n) ==
    IF v.neg THEN v.mag # <<>> /\ WLeq(v.mag, WPow2(8 * n - 1))
    ELSE WLess(v.mag, WPow2(8 * n - 1))

\* C23: a signed 16/32/64-bit integer is persisted with exactly the bytes of
\* the unsigned integer of the same two's-complement bit pattern (i16 -1 is
\* written as FF FF), and restore reconstructs the signed value from that
\* bit pattern.
C23_SignedAsTwosComplement ==
    (call.typed /\ ~call.c.null /\ call.op \in WideSignedOps /\ call.ret = 0)
        => /\ call.c.table = "persist"
                  => /\ Explode(call.post.stream)
                            = TwosComplement(call.arg, IntegerWidth(call.op))
                     /\ call.post.stream
                            = TypedOperation(
                                  UnsignedOpOf(call.op), call.c, call.pre,
                                  FromBE(Bytes(TwosComplement(
                                                   call.arg,
                                                   IntegerWidth(call.op)))),
                                  FALSE).m.stream
           /\ call.c.table = "restore"
                  => /\ InSignedRange(call.out, IntegerWidth(call.op))
                     /\ Explode(TakeBytes(call.pre.stream,
                                          W(IntegerWidth(call.op))))
                            = TwosComplement(call.out, IntegerWidth(call.op))

\* C23 happens: the i16 -1 is stored as FF FF
C23_Witness ==
    /\ In("persist", "i16")
    /\ call.arg = [neg |-> TRUE, mag |-> W(1)]
    /\ call.ret = 0
    /\ Explode(call.post.stream) = <<255, 255>>

\* C23 happens: FF FF is restored as the i16 -1
C23_RestoreWitness ==
    /\ In("restore", "i16")
    /\ Explode(call.pre.stream) = <<255, 255>>
    /\ call.arg = [neg |-> FALSE, mag |-> W(258)]
    /\ call.ret = 0
    /\ call.out = [neg |-> TRUE, mag |-> W(1)]

\* the elements the last operation allocated
AllocatedDuring == {id \in call.pre.next..(call.post.next - 1) : TRUE}

\* the number of cleanup calls the last operation made on the element
CleanupCalls(id) ==
    Cardinality({i \in 1..Len(call.post.ccalls) : call.post.ccalls[i] = id})

\* the cleanup calls of a restore of a collection: one per allocated element
\* and no other when it fails, none when it succeeds
CleanedUpOnFailureOnly ==
    IF call.ret # 0
    THEN /\ \A id \in AllocatedDuring : CleanupCalls(id) = 1
         /\ \A i \in 1..Len(call.post.ccalls) :
                call.post.ccalls[i] \in AllocatedDuring
    ELSE call.post.ccalls = <<>>

\* C24: on every failing restore-mode collection operation (list or tree)
\* the cleanup callback is called exactly once on each element allocated
\* during the call, the one whose handler or insertion failed included, and
\* on no other element; on a successful operation it is never called.
C24_CleanupOncePerAllocatedElement ==
    (Mode("restore") /\ call.op \in {"list", "tree"})
        => CleanedUpOnFailureOnly

\* the same where the caller passed a cleanup callback
C24_WithCallback ==
    (Mode("restore") /\ call.op \in {"list", "tree"} /\ call.cleanup)
        => CleanedUpOnFailureOnly

\* a failing restore with a callback: the third element of a tree repeats
\* the key of the first, and the three allocated elements are cleaned up
C24_WithCallbackWitness ==
    /\ In("restore", "tree") /\ call.cleanup
    /\ call.ret # 0
    /\ Len(call.post.hcalls) = 3
    /\ NoFaults(call.pre)
    /\ Cardinality(AllocatedDuring) = 3
    /\ Len(call.post.ccalls) = 3

\* C25: in every mode, once a stream call or an element handler call made by
\* a typed operation has failed, the operation makes no further stream read
\* or write and no further handler call, and it returns failure.
C25_FailFast ==
    (call.typed /\ ~call.c.null)
        => /\ call.post.late = 0
           /\ call.post.failed => call.ret # 0

\* C25 happens: the length write of a sized-buffer store fails and no
\* payload is written
C25_Witness ==
    /\ In("persist", "sized_buffer")
    /\ call.arg.size = W(2)
    /\ call.pre.io = 0
    /\ call.post.failed
    /\ call.ret # 0
    /\ call.post.nwrite = 1
    /\ call.post.stream = <<>>

\* C25 happens: an ignored collection stops at the first failing element
C25_IgnoreWitness ==
    /\ In("ignore", "list")
    /\ DeclaredCount(call.pre.stream) = W(3)
    /\ call.pre.hfail = 0
    /\ call.post.failed
    /\ call.ret # 0
    /\ Len(call.post.hcalls) = 1
    /\ call.post.nread = 1

\* C26: the operations of a store context only write to the bound stream and
\* never read from it; those of a restore or ignore context only read from
\* it and never write to it; the context is at all times one a constructor
\* made.
C26_TableMatchesMode ==
    /\ ctx \in {NULL_CONTEXT, INIT_STORE_CONTEXT, INIT_RESTORE_CONTEXT,
                INIT_IGNORE_CONTEXT}
    /\ (call.typed /\ ~call.c.null)
           => /\ call.c.table = "persist"
                     => /\ call.post.nread = 0
                        /\ TakeBytes(call.post.stream,
                                     BytesLen(call.pre.stream))
                               = call.pre.stream
              /\ call.c.table \in {"restore", "ignore"}
                     => /\ call.post.nwrite = 0
                        /\ WLeq(BytesLen(call.post.stream),
                                BytesLen(call.pre.stream))
                        /\ call.post.stream
                               = DropBytes(call.pre.stream,
                                           WSub(BytesLen(call.pre.stream),
                                                BytesLen(call.post.stream)))

\* C26 happens: an ignore context reads a list of two elements in three
\* reads and writes nothing
C26_Witness ==
    /\ In("ignore", "list")
    /\ call.ret = 0
    /\ call.post.nread = 3
    /\ call.post.nwrite = 0
    /\ BytesLen(call.pre.stream) = W(8)
    /\ call.post.stream = <<>>

\* C26 happens: a store context writes a tree of two elements in three
\* writes and reads nothing
C26_StoreWitness ==
    /\ In("persist", "tree")
    /\ call.ret = 0
    /\ call.post.nwrite = 3
    /\ call.post.nread = 0
    /\ BytesLen(call.post.stream) = W(8)

\* the last operation skipped raw bytes in ignore mode: a block of raw bytes,
\* or the payload of a sized buffer or string whose length it has read
SkipsBytes ==
    /\ Mode("ignore")
    /\ \/ call.op = "bytes"
       \/ /\ call.op \in {"sized_buffer", "string"}
          /\ HasCount(call.pre.stream) /\ call.pre.io # 0

\* the number of bytes to skip
SkipSize ==
    IF call.op = "bytes" THEN BytesLen(call.arg.value)
    ELSE DeclaredCount(call.pre.stream)

\* the sizes of the reads that skip, in order
SkipReads ==
    IF call.op = "bytes" THEN call.post.reads ELSE Tail(call.post.reads)

\* the stream as the skip finds it
SkipStream ==
    IF call.op = "bytes" THEN call.pre.stream ELSE Payload(call.pre.stream)

RECURSIVE WSum(_)
WSum(s) == IF s = <<>> THEN <<>> ELSE WAdd(Head(s), WSum(Tail(s)))

\* C27: an ignore-mode skip of n raw bytes reads at most 512 bytes at a
\* time, consumes exactly n bytes in all when every read succeeds, allocates
\* nothing, and stops with the failure status of the stream at the first
\* failed chunk without reading further; every chunk is smaller than what is
\* left or is all of it, so the skip ends.
C27_SkipInBoundedChunks ==
    SkipsBytes
        => /\ \A i \in 1..Len(SkipReads) :
                  /\ SkipReads[i] # <<>>
                  /\ WLeq(SkipReads[i], W(512))
                  /\ SkipReads[i]
                         = WMin(W(512),
                                WSub(SkipSize, WSum(SubSeq(SkipReads, 1, i - 1))))
           /\ WLeq(WSum(SkipReads), SkipSize)
           /\ call.ret = 0
                  => /\ WSum(SkipReads) = SkipSize
                     /\ WLeq(SkipSize, BytesLen(SkipStream))
                     /\ call.post.stream = DropBytes(SkipStream, SkipSize)
           /\ call.ret # 0
                  => /\ call.post.failed
                     /\ call.post.late = 0
                     /\ call.ret = (IF StreamRefused THEN call.pre.ioerr ELSE -1)
           /\ call.post.heap = call.pre.heap
           /\ call.post.next = call.pre.next
           /\ call.post.mem = call.pre.mem

\* C27 happens: 1025 raw bytes are skipped in reads of 512, 512 and 1 bytes
C27_Witness ==
    /\ In("ignore", "bytes")
    /\ BytesLen(call.arg.value) = W(1025)
    /\ call.ret = 0
    /\ call.post.reads = <<W(512), W(512), W(1)>>
    /\ BytesLen(call.pre.stream) = W(1025)
    /\ call.post.stream = <<>>

\* C27 happens: the payload of a sized buffer of 513 bytes is skipped
C27_BufferWitness ==
    /\ In("ignore", "sized_buffer")
    /\ call.ret = 0
    /\ call.post.reads = <<W(4), W(512), W(1)>>
    /\ call.post.stream = <<>>

\* C27 happens: the stream runs out in the second of three chunks
C27_FailureWitness ==
    /\ In("ignore", "bytes")
    /\ BytesLen(call.arg.value) = W(1025)
    /\ BytesLen(call.pre.stream) = W(513)
    /\ call.ret = -1
    /\ call.post.reads = <<W(512), W(512)>>

\* C27 happens: the stream refuses the first chunk of a payload
C27_RefusedWitness ==
    /\ In("ignore", "sized_buffer")
    /\ DeclaredCount(call.pre.stream) = W(1025)
    /\ call.pre.io = 1 /\ call.pre.ioerr = -2
    /\ call.ret = -2
    /\ call.post.reads = <<W(4), W(512)>>

\* C27 happens: a length of 2^32 - 1 with nothing behind it
C27_ShortWitness ==
    /\ In("ignore", "sized_buffer")
    /\ DeclaredCount(call.pre.stream) = WSub(UINT32_LIMIT, W(1))
    /\ Payload(call.pre.stream) = <<>>
    /\ call.ret = -1
    /\ call.post.reads = <<W(4), W(512)>>

CreatedContexts ==
    {INIT_STORE_CONTEXT, INIT_RESTORE_CONTEXT, INIT_IGNORE_CONTEXT}

\* a typed operation has just been made
TypedStep == call' # call /\ call'.typed

\* the last operation left what r holds
Left(r) ==
    /\ call.post = r.m
    /\ call.ret = r.ret
    /\ call.out = Boxed(call.op, r.out)

\* the last operation did what the same operation does through a context
\* just created
DispatchedAsAtCreation ==
    (call.typed /\ ~call.c.null)
        => /\ call.c \in CreatedContexts
           /\ Left(TypedOperation(call.op, call.c, call.pre,
                                  Unboxed(call.op, call.arg), call.cleanup))

\* C28: no typed operation, successful or failed, changes the context: its
\* direction and operation table stay as created through any sequence of
\* operations, and an operation made after a failed one is dispatched to the
\* stream as if the failure had not occurred.
C28_ContextUnchanged ==
    /\ [][TypedStep => ctx' = ctx]_vars
    /\ [](~ctx.null => ctx \in CreatedContexts)
    /\ []DispatchedAsAtCreation

\* C28 happens: an operation succeeds through a context through which an
\* earlier one failed
C28_Witness ==
    /\ call.typed /\ ~call.c.null
    /\ call.after_failure
    /\ call.ret = 0
    /\ call.c.table = "restore"
    /\ call.post.nread > 0
    /\ ctx = call.c

MultiByteScalarOps ==
    {"u16", "u32", "u64", "i16", "i32", "i64", "float", "double"}

\* C29: a failed restore of a multi-byte scalar leaves the caller's
\* destination with exactly the value it had before the call.
C29_FailedRestoreKeepsScalar ==
    (Mode("restore") /\ call.op \in MultiByteScalarOps /\ call.ret # 0)
        => call.out = call.arg

\* C29 happens: the stream holds two of the four bytes of a u32
C29_Witness ==
    /\ In("restore", "u32")
    /\ Explode(call.pre.stream) = <<0, 0>>
    /\ call.arg.value = W(1)
    /\ call.ret # 0
    /\ call.post.nread = 1
    /\ call.out.value = W(1)

\* C29 happens: the stream refuses the read of an i16
C29_RefusedWitness ==
    /\ In("restore", "i16")
    /\ call.pre.io = 0
    /\ call.arg = [neg |-> TRUE, mag |-> W(1)]
    /\ call.ret # 0
    /\ call.out = call.arg

FlatOps == ScalarOps \cup {"bytes", "sized_buffer", "string"}

\* r succeeds and leaves the stream where the last operation left it
SucceedsAlike(r) == r.ret = 0 /\ r.m.stream = call.post.stream

\* C30: for every stream content, written by a store or not, if the
\* restore-mode scalar, raw-bytes, sized-buffer or string operation succeeds
\* on it, the ignore-mode operation of the same type on the same content
\* succeeds as well and consumes the same number of bytes.
C30_IgnoreAcceptsWhatRestoreAccepts ==
    (Mode("restore") /\ call.op \in FlatOps /\ call.ret = 0)
        => SucceedsAlike(TypedOperation(call.op, INIT_IGNORE_CONTEXT, call.pre,
                                        Unboxed(call.op, call.arg),
                                        call.cleanup))

\* C30 happens: a string that no store wrote, of length 2, is restored
C30_Witness ==
    /\ In("restore", "string")
    /\ call.stored = <<>>
    /\ Explode(call.pre.stream) = <<0, 0, 0, 2, 1, 0>>
    /\ call.ret = 0
    /\ call.post.stream = <<>>

\* C30 happens: a sized buffer that no store wrote leaves bytes behind
C30_BufferWitness ==
    /\ In("restore", "sized_buffer")
    /\ call.stored = <<>>
    /\ Explode(call.pre.stream) = <<0, 0, 0, 1, 0, 1, 1, 0>>
    /\ call.ret = 0
    /\ Explode(call.post.stream) = <<1, 1, 0>>

\* C30 happens: a stored u64 is restored
C30_ScalarWitness ==
    /\ In("restore", "u64")
    /\ call.ret = 0
    /\ BytesLen(call.pre.stream) = W(8)
    /\ call.post.stream = <<>>

\* C31: no store-mode operation, successful or failed, modifies the caller's
\* source data: scalars, byte buffers, the pointer and size of a sized
\* buffer, the pointer and contents of a string, the elements, order and
\* size of a list or tree are after the call what they were before.
C31_StoreLeavesSource ==
    Mode("persist") => call.out = call.arg

\* C31 happens: a list of three elements is stored
C31_Witness ==
    /\ In("persist", "list")
    /\ Len(call.arg.elems) = 3
    /\ call.ret = 0
    /\ call.post.nwrite = 4
    /\ call.out = call.arg

\* C31 happens: the store of a u16 fails
C31_FailureWitness ==
    /\ In("persist", "u16")
    /\ call.arg.value = W(48879)
    /\ call.ret # 0
    /\ call.out = call.arg

\* ================================================== TLS socket (part_000)
\* The mbed TLS socket of src/unnamed/part_000: a socket made with or without
\* a CA certificate, and connect_ssl. The TLS library and the TCP socket
\* underneath are not part of the source: what they return to one connect_ssl
\* call is an input (a world).

\* mbedtls/ssl.h
MBEDTLS_ERR_SSL_WANT_READ == -26880
MBEDTLS_ERR_SSL_WANT_WRITE == -26752

\* most times mbedtls_ssl_handshake asks to be called again
MaxWants == 1

\* socket->ca_cert != NULL
is_verification_enabled(socket) == socket.ca_cert

\* 0, or -1 when the socket's state cannot be read or is neither consuming
\* nor serving, or when a configuration step fails
initialize_ssl_config(socket, w) ==
    IF w.fail = "avs_net_socket_get_opt" THEN -1
    ELSE IF w.state \notin {"CONSUMING", "SERVING"} THEN -1
    ELSE IF w.fail = "mbedtls_ssl_config_defaults" THEN -1
    ELSE IF w.fail = "set_min_ssl_version" THEN -1
    ELSE IF w.fail = "additional_configuration_clb" THEN -1
    ELSE 0

RECURSIVE handshake_loop(_)
\* for (;;) { int result = mbedtls_ssl_handshake(...); ... }: the loop calls
\* again on WANT_READ and WANT_WRITE and leaves on 0 and on any other value;
\* its result variable is the loop body's own, which is given here
handshake_loop(results) ==
    IF Head(results) = 0 THEN 0
    ELSE IF /\ Head(results) # MBEDTLS_ERR_SSL_WANT_READ
            /\ Head(results) # MBEDTLS_ERR_SSL_WANT_WRITE THEN Head(results)
    ELSE handshake_loop(Tail(results))

\* the end of start_ssl, from the verification on: result is the function's
\* variable, last assigned from mbedtls_ssl_set_hostname
start_ssl_verified(socket, w, result) ==
    IF is_verification_enabled(socket) /\ w.verify_result # 0 THEN -1
    ELSE IF result # 0 THEN -1 ELSE 0

\* start_ssl: its return value and what the handshake ended with (<<>> when
\* no handshake was made)
start_ssl(socket, w) ==
    IF w.fail = "mbedtls_ctr_drbg_seed" THEN [ret |-> -1, handshake |-> <<>>]
    ELSE IF initialize_ssl_config(socket, w) # 0
    THEN [ret |-> -1, handshake |-> <<>>]
    ELSE IF w.fail = "mbedtls_ssl_setup" THEN [ret |-> -1, handshake |-> <<>>]
    ELSE [ret |-> start_ssl_verified(socket, w, w.set_hostname),
          handshake |-> <<handshake_loop(w.handshakes)>>]

\* connect_ssl on the socket in world w: the socket afterwards, the return
\* value and what the handshake ended with
connect_ssl_started(socket, r) ==
    [socket |-> [socket EXCEPT !.tcp_socket = (r.ret = 0)],
     ret |-> r.ret, handshake |-> r.handshake]

connect_ssl(socket, w) ==
    IF w.fail = "avs_net_socket_create"
    THEN [socket |-> socket, ret |-> -1, handshake |-> <<>>]
    ELSE IF w.fail = "avs_net_socket_connect"
    THEN [socket |-> [socket EXCEPT !.tcp_socket = TRUE], ret |-> -1,
          handshake |-> <<>>]
    ELSE connect_ssl_started(socket, start_ssl(socket, w))

\* ---- inputs
SslFaults ==
    {"none", "avs_net_socket_create", "avs_net_socket_connect",
     "mbedtls_ctr_drbg_seed", "avs_net_socket_get_opt",
     "mbedtls_ssl_config_defaults", "set_min_ssl_version",
     "additional_configuration_clb", "mbedtls_ssl_setup"}

\* a failure of the handshake that asks for no further call
\* (MBEDTLS_ERR_SSL_CONN_EOF, MBEDTLS_ERR_X509_CERT_VERIFY_FAILED)
HandshakeErrors == {-29312, -9984}

Wants ==
    UNION {[1..n -> {MBEDTLS_ERR_SSL_WANT_READ, MBEDTLS_ERR_SSL_WANT_WRITE}] :
           n \in 0..MaxWants}

Handshakes == {ws \o <<last>> : ws \in Wants, last \in {0} \cup HandshakeErrors}

\* MBEDTLS_ERR_SSL_ALLOC_FAILED as the failure of mbedtls_ssl_set_hostname;
\* MBEDTLS_X509_BADCERT_NOT_TRUSTED as a verification result
SslWorlds ==
    [fail : SslFaults, state : {"CONSUMING", "SERVING", "LISTENING"},
     set_hostname : {0, -32512}, handshakes : Handshakes,
     verify_result : {0, 8}]

\* ---- the system
\* ssl: the socket (whether a CA certificate was configured, whether it
\* holds a TCP socket) and the last connect_ssl call made on it: the world
\* it ran in, what it returned and what its handshake ended with
PersistenceIdle ==
    /\ ctx = NULL_CONTEXT
    /\ stream = <<>>
    /\ call = NO_CALL
    /\ errors = FALSE

InitSsl ==
    /\ PersistenceIdle
    /\ \E ca \in BOOLEAN :
           ssl = [socket |-> [ca_cert |-> ca, tcp_socket |-> FALSE],
                  op |-> "create", world |-> <<>>, ret |-> 0,
                  handshake |-> <<>>]
    /\ tls = IDLE /\ net = IDLE /\ mock = IDLE

SslCalled(w, r) ==
    /\ ssl' = [socket |-> r.socket, op |-> "connect_ssl", world |-> <<w>>,
               ret |-> r.ret, handshake |-> r.handshake]
    /\ UNCHANGED <<persistence, tls, net, mock>>

Ssl_connect ==
    \E w \in SslWorlds : SslCalled(w, connect_ssl(ssl.socket, w))

NextSsl == Ssl_connect

SpecSsl == InitSsl /\ [][NextSsl]_vars

\* ---- properties

\* the last connect_ssl call made a handshake that ended with an error
HandshakeFailed ==
    /\ ssl.op = "connect_ssl"
    /\ ssl.handshake # <<>>
    /\ ssl.handshake[1] # 0

\* C32: connect_ssl (through start_ssl) returns failure whenever the TLS
\* handshake ends with an error other than WANT_READ / WANT_WRITE, with or
\* without CA verification configured: a failed handshake is never reported
\* as a successfully connected socket.
C32_FailedHandshakeReported ==
    HandshakeFailed => ssl.ret # 0

\* the same with a CA certificate configured and the library reporting a
\* verification failure after the failed handshake
C32_ReportedWhenVerificationFails ==
    (HandshakeFailed /\ ssl.socket.ca_cert /\ ssl.world[1].verify_result # 0)
        => (ssl.ret = -1 /\ ~ssl.socket.tcp_socket)

\* a handshake that succeeds, after the host name was set, on a socket
\* without CA verification
C32_SuccessWitness ==
    /\ ssl.op = "connect_ssl" /\ ssl.handshake = <<0>> /\ ssl.ret = 0
    /\ ssl.socket.tcp_socket

\* ============================================ TLS socket (mbedtls/mbedtls.c)
\* The socket of src/net/src/mbedtls/mbedtls.c: start_ssl and close_ssl_raw,
\* and the flags they keep. The names that part_000 has as well carry the
\* prefix mbedtls_ here. An avs_error_t is held as the name of its code.

AVS_OK == "AVS_OK"
avs_is_err(err) == err # AVS_OK
avs_is_ok(err) == err = AVS_OK

\* socket->flags.context_valid
is_ssl_started(socket) == socket.context_valid

\* security_mode == AVS_NET_SECURITY_CERTIFICATE && security.cert.ca_cert
mbedtls_is_verification_enabled(socket) ==
    socket.security_mode = "CERTIFICATE" /\ socket.ca_cert

\* the endpoint follows the backend socket's state
update_ssl_endpoint_config(socket, w) ==
    IF w.fail = "avs_net_socket_get_opt" THEN "AVS_EBADF"
    ELSE IF w.state \in {"CONNECTED", "ACCEPTED"} THEN AVS_OK
    ELSE "AVS_EINVAL"

\* initialize_psk_security / initialize_cert_security, by the security mode
initialize_security(socket, w) ==
    IF socket.security_mode \notin {"PSK", "CERTIFICATE"} THEN "AVS_EBADF"
    ELSE IF w.fail = "avs_calloc" THEN "AVS_ENOMEM"
    ELSE AVS_OK

RECURSIVE mbedtls_handshake_loop(_)
\* do { result = mbedtls_ssl_handshake(...); } while (WANT_READ or WANT_WRITE)
mbedtls_handshake_loop(results) ==
    IF /\ Head(results) # MBEDTLS_ERR_SSL_WANT_READ
       /\ Head(results) # MBEDTLS_ERR_SSL_WANT_WRITE THEN Head(results)
    ELSE mbedtls_handshake_loop(Tail(results))

\* finish, if an error left the context as it is, still marked valid
start_ssl_finish_leaking(socket, err) ==
    [socket |-> socket, err |-> err]

\* finish: with an error the context is freed and marked invalid
start_ssl_finish(socket, err) ==
    IF avs_is_err(err)
    THEN [socket |-> [socket EXCEPT !.context_valid = FALSE], err |-> err]
    ELSE [socket |-> socket, err |-> AVS_OK]

\* after the handshake: the certificate verification result counts when
\* nothing failed, no session was restored and verification is enabled
start_ssl_verify(socket, w, err) ==
    IF /\ avs_is_ok(err) /\ ~socket.session_restored
       /\ mbedtls_is_verification_enabled(socket)
       /\ w.verify_result # 0
    THEN start_ssl_finish(socket, "AVS_EPROTO")
    ELSE start_ssl_finish(socket, err)

\* the handshake's result: on success session_restored is assigned, on
\* failure the error is the transport's, if it had one, or a protocol error
start_ssl_handshaken(socket, w, result) ==
    IF result = 0
    THEN start_ssl_verify([socket EXCEPT !.session_restored = w.restored],
                          w, AVS_OK)
    ELSE start_ssl_verify(socket, w,
                          IF avs_is_err(w.bio_error) THEN w.bio_error
                          ELSE "AVS_EPROTO")

\* from mbedtls_ssl_init on: the context is valid from here
start_ssl_context(socket, w) ==
    IF w.fail = "mbedtls_ssl_setup" THEN start_ssl_finish(socket, "AVS_ENOMEM")
    ELSE IF w.fail = "mbedtls_ssl_set_cid"
    THEN start_ssl_finish(socket, "AVS_EIO")
    ELSE IF w.fail = "mbedtls_ssl_set_hostname (alloc)"
    THEN start_ssl_finish(socket, "AVS_ENOMEM")
    ELSE IF w.fail = "mbedtls_ssl_set_hostname"
    THEN start_ssl_finish(socket, "AVS_EINVAL")
    ELSE start_ssl_handshaken(socket, w, mbedtls_handshake_loop(w.handshakes))

\* start_ssl on a socket whose context is not valid: the socket afterwards
\* and the error returned
mbedtls_start_ssl(socket, w) ==
    IF avs_is_err(update_ssl_endpoint_config(socket, w))
    THEN [socket |-> socket, err |-> update_ssl_endpoint_config(socket, w)]
    ELSE IF avs_is_err(initialize_security(socket, w))
    THEN [socket |-> socket, err |-> initialize_security(socket, w)]
    ELSE start_ssl_context([socket EXCEPT !.context_valid = TRUE], w)

\* close_ssl_raw: the backend socket is closed, a valid context freed
close_ssl_raw(socket) ==
    IF socket.context_valid THEN [socket EXCEPT !.context_valid = FALSE]
    ELSE socket

\* ---- inputs
TlsFaults ==
    {"none", "avs_net_socket_get_opt", "avs_calloc", "mbedtls_ssl_setup",
     "mbedtls_ssl_set_cid", "mbedtls_ssl_set_hostname (alloc)",
     "mbedtls_ssl_set_hostname"}

TlsWorlds ==
    [fail : TlsFaults, state : {"CONNECTED", "ACCEPTED", "LISTENING"},
     handshakes : Handshakes, bio_error : {AVS_OK, "AVS_ECONNRESET"},
     restored : BOOLEAN, verify_result : {0, 8}]

\* ---- the system
\* tls: the socket (its flags, security mode and whether a CA certificate
\* is configured) and the last call made on it: the step that failed in it,
\* the backend socket's state and what the handshake ended with
NO_WORLD == [fail |-> "none", state |-> "none", result |-> 0]

Met(w) ==
    [fail |-> w.fail, state |-> w.state,
     result |-> mbedtls_handshake_loop(w.handshakes)]

InitTls ==
    /\ PersistenceIdle
    /\ \E mode \in {"PSK", "CERTIFICATE"}, ca \in BOOLEAN :
           tls = [socket |-> [context_valid |-> FALSE,
                              session_restored |-> FALSE,
                              security_mode |-> mode, ca_cert |-> ca],
                  op |-> "create", world |-> NO_WORLD, err |-> AVS_OK,
                  entered_valid |-> FALSE]
    /\ ssl = IDLE /\ net = IDLE /\ mock = IDLE

TlsCalled(op, w, socket, err) ==
    /\ tls' = [socket |-> socket, op |-> op, world |-> w, err |-> err,
               entered_valid |-> tls.socket.context_valid]
    /\ UNCHANGED <<persistence, ssl, net, mock>>

TlsStarted(w, r) == TlsCalled("start_ssl", Met(w), r.socket, r.err)

\* start_ssl, which its callers make on a socket that is not started
Tls_start_ssl ==
    /\ ~is_ssl_started(tls.socket)
    /\ \E w \in TlsWorlds : TlsStarted(w, mbedtls_start_ssl(tls.socket, w))

Tls_close_ssl_raw ==
    TlsCalled("close_ssl_raw", NO_WORLD, close_ssl_raw(tls.socket), AVS_OK)

NextTls ==
    \/ Tls_start_ssl
    \/ Tls_close_ssl_raw

SpecTls == InitTls /\ [][NextTls]_vars

\* ---- properties

\* C33: for a socket whose context is not valid on entry, start_ssl leaves
\* flags.context_valid true if and only if it returns success (on every
\* error path taken after the SSL context was initialised the context is
\* freed and context_valid is reset to false), and close_ssl_raw always
\* leaves context_valid false.
C33_ContextValidIffStarted ==
    /\ (tls.op = "start_ssl" /\ ~tls.entered_valid)
           => (tls.socket.context_valid <=> avs_is_ok(tls.err))
    /\ tls.op = "close_ssl_raw" => ~tls.socket.context_valid

\* a handshake that failed after the context was initialised
C33_Witness ==
    /\ tls.op = "start_ssl" /\ ~tls.entered_valid
    /\ tls.world.fail = "none" /\ tls.world.state = "CONNECTED"
    /\ tls.world.result # 0
    /\ tls.err = "AVS_EPROTO" /\ ~tls.socket.context_valid

\* a started socket
C33_StartedWitness ==
    /\ tls.op = "start_ssl" /\ tls.err = AVS_OK /\ tls.socket.context_valid

\* a started socket closed
C33_ClosedWitness ==
    /\ tls.op = "close_ssl_raw" /\ tls.entered_valid
    /\ ~tls.socket.context_valid

\* ========================================= buffered network stream (netbuf.c)
\* The stream of src/stream/src/netbuf.c. A stream s holds its two buffers
\* (the bytes in each, and each one's capacity) and errno_; the socket under
\* it is held as its history: the bytes handed to avs_net_socket_send by all
\* calls (handed) and by those that succeeded (delivered), and the bytes its
\* avs_net_socket_receive delivered (received). What a socket call does is an
\* input: a send outcome is 0 or the errno of its failure, a receive outcome
\* the number of bytes the socket has ready (0 for none) or, negated, the
\* errno of its failure. Bytes are numbered as they come, so that each one
\* can be told from every other.

\* errno.h, stdio.h
EINVAL == 22
EOF == -1

\* ---- avs_buffer_t: bytes and a capacity
avs_buffer_data_size(buffer) == Len(buffer.data)
avs_buffer_capacity(buffer) == buffer.capacity
avs_buffer_space_left(buffer) == buffer.capacity - Len(buffer.data)
avs_buffer_reset(buffer) == [buffer EXCEPT !.data = <<>>]
avs_buffer_consume_bytes(buffer, n) ==
    [buffer EXCEPT !.data = SubSeq(@, n + 1, Len(@))]
\* avs_buffer_append_bytes, and avs_buffer_advance_ptr after a receive at
\* avs_buffer_raw_insert_ptr
avs_buffer_append_bytes(buffer, bytes) == [buffer EXCEPT !.data = @ \o bytes]

\* ---- the socket
\* avs_net_socket_send of bytes with outcome o
avs_net_socket_send(s, bytes, o) ==
    [s |-> [s EXCEPT !.handed = @ \o bytes,
                     !.delivered = IF o = 0 THEN @ \o bytes ELSE @],
     ret |-> IF o = 0 THEN 0 ELSE -1]

Min(a, b) == IF a < b THEN a ELSE b

\* the next n bytes of the socket
Incoming(s, n) == [i \in 1..n |-> Len(s.received) + i]

\* avs_net_socket_receive into a buffer of the given size with outcome o:
\* the bytes delivered
avs_net_socket_receive(s, size, o) ==
    IF o < 0 THEN [s |-> s, ret |-> -1, bytes |-> <<>>]
    ELSE [s |-> [s EXCEPT !.received = @ \o Incoming(s, Min(o, size))],
          ret |-> 0, bytes |-> Incoming(s, Min(o, size))]

\* ---- netbuf.c
\* set_errno if it overwrote
set_errno_overwriting(s, errno) == [s EXCEPT !.errno_ = errno]

\* if (!stream->errno_) stream->errno_ = errno;
set_errno(s, errno) ==
    IF s.errno_ = 0 THEN [s EXCEPT !.errno_ = errno] ELSE s

\* what a call leaves: the stream, the return value, the bytes given to the
\* caller, message_finished, and the errno of the failure that ended it
NetResult(s, ret, bytes, finished, err) ==
    [s |-> s, ret |-> ret, bytes |-> bytes, finished |-> finished, err |-> err]

\* out_buffer_flush if the buffer were emptied whatever the send returned
out_buffer_flush_sent_emptying(r, o) ==
    NetResult([r.s EXCEPT !.out_buffer = avs_buffer_reset(@)],
              r.ret, <<>>, FALSE, o)

out_buffer_flush_sent(r, o) ==
    IF r.ret = 0
    THEN NetResult([r.s EXCEPT !.out_buffer = avs_buffer_reset(@)],
                   0, <<>>, FALSE, 0)
    ELSE NetResult(set_errno(r.s, o), r.ret, <<>>, FALSE, o)

out_buffer_flush(s, o) ==
    out_buffer_flush_sent(avs_net_socket_send(s, s.out_buffer.data, o), o)

\* the send of a write's own data, after the flush
buffered_netstream_write_sent(r, o) ==
    IF r.ret # 0 THEN NetResult(set_errno(r.s, o), -1, <<>>, FALSE, o)
    ELSE NetResult(r.s, 0, <<>>, FALSE, 0)

buffered_netstream_write_flushed(f, data, o) ==
    IF f.ret # 0 THEN NetResult(set_errno(f.s, f.err), -1, <<>>, FALSE, f.err)
    ELSE buffered_netstream_write_sent(avs_net_socket_send(f.s, data, o), o)

\* write of data; flush and send are the outcomes of the two sends it may make
buffered_netstream_write(s, data, flush, send) ==
    IF Len(data) >= avs_buffer_space_left(s.out_buffer)
    THEN buffered_netstream_write_flushed(out_buffer_flush(s, flush), data,
                                          send)
    ELSE NetResult([s EXCEPT !.out_buffer = avs_buffer_append_bytes(@, data)],
                   0, <<>>, FALSE, 0)

buffered_netstream_finish_message(s, flush) == out_buffer_flush(s, flush)

\* return_data_from_buffer if the bytes copied out stayed in the buffer
return_data_from_buffer_unconsumed(s, buffer_length) ==
    NetResult(s, 0,
              SubSeq(s.in_buffer.data, 1,
                     Min(buffer_length, Len(s.in_buffer.data))),
              FALSE, 0)

\* up to buffer_length buffered bytes are copied out and consumed
return_data_from_buffer(s, buffer_length) ==
    NetResult([s EXCEPT !.in_buffer =
                   avs_buffer_consume_bytes(
                       @, Min(buffer_length, Len(s.in_buffer.data)))],
              0,
              SubSeq(s.in_buffer.data, 1,
                     Min(buffer_length, Len(s.in_buffer.data))),
              FALSE, 0)

read_data_to_user_buffer_received(r, o) ==
    IF r.ret # 0 THEN NetResult(set_errno(r.s, -o), r.ret, <<>>, TRUE, -o)
    ELSE NetResult(r.s, 0, r.bytes, r.bytes = <<>>, 0)

\* the socket's data goes to the caller's buffer directly
read_data_to_user_buffer(s, buffer_length, o) ==
    read_data_to_user_buffer_received(
        avs_net_socket_receive(s, buffer_length, o), o)

in_buffer_read_some_received(r, o) ==
    IF r.ret = 0
    THEN NetResult([r.s EXCEPT !.in_buffer =
                        avs_buffer_append_bytes(@, r.bytes)],
                   0, r.bytes, FALSE, 0)
    ELSE NetResult(set_errno(r.s, -o), r.ret, <<>>, FALSE, -o)

\* one receive into the space the input buffer has left; -1 without a
\* receive when it has none
in_buffer_read_some(s, o) ==
    IF avs_buffer_space_left(s.in_buffer) = 0
    THEN NetResult(s, -1, <<>>, FALSE, 0)
    ELSE in_buffer_read_some_received(
             avs_net_socket_receive(s, avs_buffer_space_left(s.in_buffer), o),
             o)

read_data_through_internal_buffer_read(r, buffer_length) ==
    IF r.ret # 0 THEN NetResult(r.s, -1, <<>>, FALSE, r.err)
    ELSE IF avs_buffer_data_size(r.s.in_buffer) > 0
    THEN return_data_from_buffer(r.s, buffer_length)
    ELSE NetResult(r.s, 0, <<>>, TRUE, 0)

read_data_through_internal_buffer(s, buffer_length, o) ==
    read_data_through_internal_buffer_read(in_buffer_read_some(s, o),
                                           buffer_length)

read_new_data(s, buffer_length, o) ==
    IF buffer_length >= avs_buffer_capacity(s.in_buffer)
    THEN read_data_to_user_buffer(s, buffer_length, o)
    ELSE read_data_through_internal_buffer(s, buffer_length, o)

\* read into a buffer of buffer_length bytes; o is the outcome of the
\* receive it may make
buffered_netstream_read(s, buffer_length, o) ==
    IF avs_buffer_data_size(s.in_buffer) > 0
    THEN return_data_from_buffer(s, buffer_length)
    ELSE read_new_data(s, buffer_length, o)

\* what peek leaves: the stream, the value returned, the errno of the failure
\* that ended it, and where it returned ("byte", "offset" for an offset not
\* below the capacity, "failed" and "empty" for a receive that failed or
\* delivered nothing, "full" for a buffer without space; "running" if the
\* loop has not returned when the outcomes given are used up)
PeekResult(s, ret, err, exit) ==
    [s |-> s, ret |-> ret, err |-> err, exit |-> exit]

RECURSIVE peek_loop(_, _, _)
RECURSIVE peek_read(_, _, _, _)

\* the body of the loop, after in_buffer_read_some
peek_read(r, full, offset, os) ==
    IF r.ret # 0
    THEN PeekResult(r.s, EOF, r.err, IF full THEN "full" ELSE "failed")
    ELSE IF Len(r.bytes) = 0 THEN PeekResult(r.s, EOF, 0, "empty")
    ELSE peek_loop(r.s, offset, os)

\* while (offset >= avs_buffer_data_size(stream->in_buffer)) ...
peek_loop(s, offset, os) ==
    IF offset >= avs_buffer_data_size(s.in_buffer)
    THEN IF os = <<>> THEN PeekResult(s, EOF, 0, "running")
         ELSE peek_read(in_buffer_read_some(s, Head(os)),
                        avs_buffer_space_left(s.in_buffer) = 0, offset,
                        Tail(os))
    ELSE PeekResult(s, s.in_buffer.data[offset + 1], 0, "byte")

\* peek at offset; os are the outcomes of the receives it may make
buffered_netstream_peek(s, offset, os) ==
    IF offset < avs_buffer_capacity(s.in_buffer)
    THEN peek_loop(s, offset, os)
    ELSE PeekResult(set_errno(s, EINVAL), EOF, EINVAL, "offset")

buffered_netstream_reset(s) ==
    [s EXCEPT !.errno_ = 0,
              !.in_buffer = avs_buffer_reset(@),
              !.out_buffer = avs_buffer_reset(@)]

buffered_netstream_errno(s) == s.errno_

\* avs_stream_netbuf_create: empty buffers of the sizes given, errno_ 0, on
\* a socket that has sent and received nothing
avs_stream_netbuf_create(in_buffer_size, out_buffer_size) ==
    [in_buffer |-> [data |-> <<>>, capacity |-> in_buffer_size],
     out_buffer |-> [data |-> <<>>, capacity |-> out_buffer_size],
     errno_ |-> 0, handed |-> <<>>, delivered |-> <<>>, received |-> <<>>]

\* ---- inputs
\* most calls made on one stream
MaxCalls == 3

\* buffer sizes a stream is made with
Capacities == {1, 2}

\* a send succeeds or fails with EIO or EPIPE
SendOutcomes == {0, 5, 32}

\* a receive finds no, one or two bytes ready, or fails with ETIMEDOUT
ReceiveOutcomes == {0, 1, 2, -110}

\* ---- the system
\* net: the stream s; the bytes of the writes that succeeded (written) and
\* the number of bytes passed to write (nwritten); the bytes the reads
\* returned (returned); the errno of the first failure (first), all since the
\* stream was made or reset; the number of calls made; and the last call.
InitNet ==
    /\ PersistenceIdle
    /\ \E in_buffer_size \in Capacities, out_buffer_size \in Capacities :
           net = [s |-> avs_stream_netbuf_create(in_buffer_size,
                                                 out_buffer_size),
                  written |-> <<>>, nwritten |-> 0, returned |-> <<>>,
                  first |-> 0, calls |-> 0, op |-> "create", arg |-> 0,
                  ret |-> 0, err |-> 0, exit |-> "", bytes |-> <<>>]
    /\ ssl = IDLE /\ tls = IDLE /\ mock = IDLE

NetCalled(op, arg, r, exit, bytes) ==
    /\ net.calls < MaxCalls
    /\ net' = [net EXCEPT
                   !.s = r.s,
                   !.first = IF @ = 0 THEN r.err ELSE @,
                   !.calls = @ + 1,
                   !.op = op, !.arg = arg, !.ret = r.ret, !.err = r.err,
                   !.exit = exit, !.bytes = bytes,
                   !.nwritten = IF op = "write" THEN @ + arg ELSE @,
                   !.written = IF op = "write" /\ r.ret = 0 THEN @ \o bytes
                               ELSE @,
                   !.returned = IF op = "read" /\ r.ret = 0 THEN @ \o bytes
                                ELSE @]
    /\ UNCHANGED <<persistence, ssl, tls, mock>>

\* the next n bytes the caller writes
Outgoing(n) == [i \in 1..n |-> net.nwritten + i]

NetWritten(n, r) == NetCalled("write", n, r, "", Outgoing(n))

Net_write ==
    \E n \in 0..(net.s.out_buffer.capacity + 1),
       flush \in SendOutcomes, send \in SendOutcomes :
        NetWritten(n, buffered_netstream_write(net.s, Outgoing(n), flush,
                                               send))

Net_finish_message ==
    \E flush \in SendOutcomes :
        NetCalled("finish_message", 0,
                  buffered_netstream_finish_message(net.s, flush), "", <<>>)

NetRead(n, r) == NetCalled("read", n, r, "", r.bytes)

Net_read ==
    \E n \in 0..(net.s.in_buffer.capacity + 1), o \in ReceiveOutcomes :
        NetRead(n, buffered_netstream_read(net.s, n, o))

NetPeeked(offset, r) == NetCalled("peek", offset, r, r.exit, <<>>)

Net_peek ==
    \E offset \in 0..net.s.in_buffer.capacity,
       os \in [1..net.s.in_buffer.capacity -> ReceiveOutcomes] :
        NetPeeked(offset, buffered_netstream_peek(net.s, offset, os))

\* reset; the histories start again
Net_reset ==
    /\ net.calls < MaxCalls
    /\ net' = [net EXCEPT
                   !.s = [buffered_netstream_reset(@) EXCEPT
                              !.handed = <<>>, !.delivered = <<>>,
                              !.received = <<>>],
                   !.written = <<>>, !.nwritten = 0, !.returned = <<>>,
                   !.first = 0, !.calls = @ + 1, !.op = "reset", !.arg = 0,
                   !.ret = 0, !.err = 0, !.exit = "", !.bytes = <<>>]
    /\ UNCHANGED <<persistence, ssl, tls, mock>>

NextNet ==
    \/ Net_write
    \/ Net_finish_message
    \/ Net_read
    \/ Net_peek
    \/ Net_reset

SpecNet == InitNet /\ [][NextNet]_vars

\* ---- properties
RECURSIVE IsPrefix(_, _)
IsPrefix(a, b) ==
    \/ a = <<>>
    \/ b # <<>> /\ Head(a) = Head(b) /\ IsPrefix(Tail(a), Tail(b))

\* the last call was a finish_message that succeeded
Finished == net.op = "finish_message" /\ net.ret = 0

\* C34 (as stated): after any sequence of write and finish_message calls the
\* bytes handed to the socket's send are a prefix of the bytes of the
\* successful writes, in write order; after a successful finish_message the
\* output buffer is empty and every byte of every successful write has been
\* handed to send exactly once.
C34_HandedInWriteOrder ==
    /\ IsPrefix(net.s.handed, net.written)
    /\ Finished => (net.s.out_buffer.data = <<>> /\ net.s.handed = net.written)

\* C34 (amended): the bytes of the sends that succeeded are a prefix of the
\* bytes of the successful writes, in write order, and together with the
\* buffered bytes they are exactly those bytes (a write too large for the
\* buffer has the buffer flushed before its own data is sent); after a
\* successful finish_message the output buffer is empty and every byte of
\* every successful write was sent by exactly one successful send. A send
\* that fails was handed bytes as well: those of the write that fails with
\* it, or buffered bytes that the next flush hands over again.
C34_DeliveredInWriteOrder ==
    /\ IsPrefix(net.s.delivered, net.written)
    /\ net.s.delivered \o net.s.out_buffer.data = net.written
    /\ Finished => (net.s.out_buffer.data = <<>>
                    /\ net.s.delivered = net.written)

\* a byte is buffered, then a write too large for what is left sends both
C34_Witness ==
    /\ net.op = "write" /\ net.ret = 0 /\ net.arg = 2
    /\ net.s.out_buffer.capacity = 2
    /\ net.s.delivered = <<1, 2, 3>> /\ net.written = <<1, 2, 3>>
    /\ net.s.out_buffer.data = <<>>

\* a flush that failed and was made again
C34_RetriedWitness ==
    /\ Finished /\ net.s.handed = <<1, 1>> /\ net.s.delivered = <<1>>
    /\ net.written = <<1>> /\ net.err = 0 /\ net.first # 0

\* a write that failed in the send of its own data, after the flush
C34_FailedWriteWitness ==
    /\ net.op = "write" /\ net.ret = -1 /\ net.s.handed = <<1, 2, 3>>
    /\ net.s.delivered = <<1>> /\ net.written = <<1>>

\* the bytes the stream has taken from the socket and not yet returned
Unread == net.s.in_buffer.data

\* C35: peek never consumes data, and after any interleaving of peek and
\* read calls the bytes returned by the reads, followed by those still
\* buffered, are the bytes received from the socket, in order, none lost and
\* none duplicated; peek terminates for every offset: it returns the byte at
\* the offset, or EOF when the offset is not below the input buffer's
\* capacity, when the socket fails or delivers 0 bytes, or when the buffer
\* has no space left.
C35_ReadsReturnWhatWasReceived ==
    /\ net.returned \o Unread = net.s.received
    /\ net.op = "read" /\ net.ret = 0 => Len(net.bytes) <= net.arg
    /\ net.op = "peek" =>
           /\ net.exit \in {"byte", "offset", "failed", "empty", "full"}
           /\ net.exit = "offset" <=> net.arg >= net.s.in_buffer.capacity
           /\ net.exit = "byte" =>
                  /\ net.arg < Len(Unread)
                  /\ net.ret = net.s.received[Len(net.returned) + net.arg + 1]
           /\ net.exit # "byte" => net.ret = EOF
           /\ net.exit = "failed" => net.err # 0

\* a peek at the byte that follows the one a read has returned
C35_Witness ==
    /\ net.op = "peek" /\ net.exit = "byte" /\ net.ret = 2 /\ net.arg = 0
    /\ net.returned = <<1>> /\ Unread = <<2>>

\* a read that returns what two peeks have buffered
C35_ReadWitness ==
    /\ net.op = "read" /\ net.ret = 0 /\ net.bytes = <<1, 2>>
    /\ net.calls = 3 /\ net.s.received = <<1, 2>> /\ Unread = <<>>
    /\ net.s.in_buffer.capacity = 2

\* a read straight into the caller's buffer
C35_DirectWitness ==
    /\ net.op = "read" /\ net.ret = 0 /\ net.arg = 2 /\ net.bytes = <<1, 2>>
    /\ net.s.in_buffer.capacity = 1

\* peeks that end with EOF: socket failure, nothing delivered, offset
C35_FailedWitness == net.op = "peek" /\ net.exit = "failed" /\ net.ret = EOF
C35_EmptyWitness == net.op = "peek" /\ net.exit = "empty" /\ net.ret = EOF
C35_OffsetWitness == net.op = "peek" /\ net.exit = "offset" /\ net.ret = EOF

\* peek never finds the buffer without space: inside its loop the buffer
\* holds no more than offset bytes, and offset is below the capacity
C35_FullUnreached == ~(net.op = "peek" /\ net.exit = "full")

\* C36: the stream's error code is first-error sticky: it is 0 after
\* creation and after reset, it is set only when it is 0, and once non-zero
\* it keeps the code of the first failure through any later failing or
\* succeeding operation until reset is called.
C36_FirstErrorSticky ==
    /\ [](buffered_netstream_errno(net.s) = net.first)
    /\ [](net.op \in {"create", "reset"} => buffered_netstream_errno(net.s) = 0)
    /\ [][/\ net.s.errno_ # net'.s.errno_ => (net.s.errno_ = 0 \/ net'.s.errno_ = 0)
          /\ net'.s.errno_ = 0 /\ net.s.errno_ # 0 => net'.op = "reset"
          /\ net.s.errno_ = 0 /\ net'.err # 0 => net'.s.errno_ = net'.err]_vars

\* a failure after the first one: the code of the first is kept
C36_Witness ==
    /\ net.op = "peek" /\ net.err = EINVAL /\ net.s.errno_ = 5
    /\ net.first = 5

\* a success after a failure
C36_SuccessWitness ==
    /\ net.op = "read" /\ net.ret = 0 /\ net.bytes = <<1>> /\ net.s.errno_ = 32

\* a reset as the second call
C36_ResetWitness ==
    /\ net.op = "reset" /\ net.calls = 2 /\ net.s.errno_ = 0
    /\ net.s.out_buffer.data = <<>> /\ net.s.in_buffer.data = <<>>

\* ================================================ mock socket (mocksock.c)
\* The mock socket of src/unit/src/mocksock.c. A socket holds connected, the
\* queue of expected commands (each a command and its retval) and the queue
\* of expected data (each a type, and ptr and size or a retval). A call ends
\* by returning ("returned"), in an assertion of the unit test framework
\* that fails and ends the test ("assert"), after a read through a null
\* pointer ("undefined"), in a crash on that read ("crashed"), or it does
\* not end ("spinning").

MockResult(socket, ret, exit) == [socket |-> socket, ret |-> ret, exit |-> exit]

\* an assertion that failed: the test ends, the socket stays as it was
Failed(socket) == MockResult(socket, 0, "assert")

\* whether both assertions of assert_command_expected pass
assert_command_expected(expected, actual) ==
    expected # <<>> /\ Head(expected).command = actual

\* the head of the command queue is deleted and its retval returned
Consumed(socket, connected) ==
    MockResult([socket EXCEPT !.expected_commands = Tail(@),
                              !.connected = connected],
               Head(socket.expected_commands).retval, "returned")

\* mock_connect; matches: whether host and port are the expected ones
mock_connect(socket, matches) ==
    IF ~assert_command_expected(socket.expected_commands, "CONNECT")
    THEN Failed(socket)
    ELSE IF socket.connected \/ ~matches THEN Failed(socket)
    ELSE Consumed(socket, Head(socket.expected_commands).retval = 0)

\* mock_bind; matches: whether address and port are the expected ones
mock_bind(socket, matches) ==
    IF ~assert_command_expected(socket.expected_commands, "BIND")
    THEN Failed(socket)
    ELSE IF socket.connected \/ ~matches THEN Failed(socket)
    ELSE Consumed(socket, Head(socket.expected_commands).retval = 0)

\* mock_accept on a server socket, for a new socket that is not connected:
\* the results the call can have. The head is deleted, then retval is read
\* from the entry that has become the head, and that one deleted as well;
\* with no such entry the read is through a null pointer.
mock_accept(socket) ==
    IF ~assert_command_expected(socket.expected_commands, "ACCEPT")
    THEN {Failed(socket)}
    ELSE IF ~socket.connected THEN {Failed(socket)}
    ELSE IF Tail(socket.expected_commands) = <<>>
    THEN {MockResult([socket EXCEPT !.expected_commands = <<>>], 0,
                     "crashed")}
         \cup {MockResult([socket EXCEPT !.expected_commands = <<>>], retval,
                          "undefined") : retval \in {0, -1}}
    ELSE {MockResult([socket EXCEPT !.expected_commands = Tail(Tail(@))],
                     socket.expected_commands[2].retval, "returned")}

\* mock_close: with a command pending it must be a mid_close, and no
\* expected data may be half used; with none, no data may be expected
mock_close(socket) ==
    IF socket.expected_commands # <<>>
    THEN IF ~assert_command_expected(socket.expected_commands, "MID_CLOSE")
         THEN Failed(socket)
         ELSE IF /\ socket.expected_data # <<>>
                 /\ Head(socket.expected_data).ptr # 0 THEN Failed(socket)
         ELSE Consumed(socket, FALSE)
    ELSE IF socket.expected_data # <<>> THEN Failed(socket)
    ELSE MockResult([socket EXCEPT !.connected = FALSE], 0, "returned")

\* mock_shutdown: the expected data is dropped
mock_shutdown(socket) ==
    IF ~assert_command_expected(socket.expected_commands, "SHUTDOWN")
    THEN Failed(socket)
    ELSE Consumed([socket EXCEPT !.expected_data = <<>>], FALSE)

\* mock_remote_host, mock_remote_port, mock_get_opt and mock_set_opt, by the
\* command each one expects; matches: whether the option key is the expected
\* one (the first two compare nothing)
mock_query(socket, command, matches) ==
    IF ~assert_command_expected(socket.expected_commands, command)
    THEN Failed(socket)
    ELSE IF command \in {"GET_OPT", "SET_OPT"} /\ ~matches THEN Failed(socket)
    ELSE Consumed(socket, socket.connected)

RECURSIVE mock_send_loop(_, _, _)
\* while (buffer_length > 0): expected output takes bytes of the buffer and
\* is deleted once used up, an output failure is deleted and returned; for
\* any other head the body does nothing and the loop goes on as it was
mock_send_loop(socket, buffer_length, matches) ==
    IF buffer_length = 0 THEN MockResult(socket, 0, "returned")
    ELSE IF socket.expected_data = <<>> THEN Failed(socket)
    ELSE IF Head(socket.expected_data).type = "OUTPUT"
    THEN IF ~matches THEN Failed(socket)
         ELSE IF /\ Head(socket.expected_data).size
                        - Head(socket.expected_data).ptr <= buffer_length
         THEN mock_send_loop(
                  [socket EXCEPT !.expected_data = Tail(@)],
                  buffer_length - (Head(socket.expected_data).size
                                   - Head(socket.expected_data).ptr),
                  matches)
         ELSE MockResult(
                  [socket EXCEPT !.expected_data[1].ptr = @ + buffer_length],
                  0, "returned")
    ELSE IF Head(socket.expected_data).type = "OUTPUT_FAIL"
    THEN MockResult([socket EXCEPT !.expected_data = Tail(@)],
                    Head(socket.expected_data).retval, "returned")
    ELSE MockResult(socket, 0, "spinning")

\* mock_send; matches: whether the bytes sent are the expected ones
mock_send(socket, buffer_length, matches) ==
    IF ~socket.connected THEN Failed(socket)
    ELSE mock_send_loop(socket, buffer_length, matches)

\* mock_receive into a buffer of buffer_length bytes (the number of bytes
\* given is not kept)
mock_receive(socket, buffer_length) ==
    IF ~socket.connected THEN Failed(socket)
    ELSE IF socket.expected_data = <<>> THEN MockResult(socket, 0, "returned")
    ELSE IF Head(socket.expected_data).type = "INPUT"
    THEN IF Head(socket.expected_data).size - Head(socket.expected_data).ptr
                <= buffer_length
         THEN MockResult(
                  [socket EXCEPT !.expected_data = Tail(@),
                                 !.last_data_read =
                                     Head(socket.expected_data).size],
                  0, "returned")
         ELSE MockResult(
                  [socket EXCEPT !.expected_data[1].ptr = @ + buffer_length],
                  0, "returned")
    ELSE IF Head(socket.expected_data).type = "INPUT_FAIL"
    THEN MockResult([socket EXCEPT !.expected_data = Tail(@)],
                    Head(socket.expected_data).retval, "returned")
    ELSE MockResult(socket, 0, "returned")

\* ---- inputs
\* most expectations, of commands and of data, a test sets up
MaxExpected == 3

Commands ==
    {"CONNECT", "BIND", "ACCEPT", "SHUTDOWN", "REMOTE_HOST", "REMOTE_PORT",
     "MID_CLOSE", "GET_OPT", "SET_OPT"}

\* the commands of mock_remote_host .. mock_set_opt
Queries == {"REMOTE_HOST", "REMOTE_PORT", "GET_OPT", "SET_OPT"}

ExpectedData ==
    [type : {"INPUT", "OUTPUT"}, ptr : {0}, size : 0..2, retval : {0}]
    \cup [type : {"INPUT_FAIL", "OUTPUT_FAIL"}, ptr : {0}, size : {0},
          retval : {-1}]

BufferLengths == 0..3

\* ---- the system
\* mock: the socket; how many expectations were set up, how many of them
\* commands; how many command calls have returned; and the last call, with
\* the command queue as it was when the call was made
InitMock ==
    /\ PersistenceIdle
    /\ mock = [socket |-> [connected |-> FALSE, expected_commands |-> <<>>,
                           expected_data |-> <<>>, last_data_read |-> 0],
               expected |-> 0, commands |-> 0, calls |-> 0,
               op |-> "create", arg |-> 0, ret |-> 0, exit |-> "returned",
               before |-> <<>>]
    /\ ssl = IDLE /\ tls = IDLE /\ net = IDLE

\* the test goes on while calls return
Running == mock.exit \in {"returned", "undefined"}

\* avs_unit_mocksock_expect_connect__ .. avs_unit_mocksock_expect_set_opt__
Mock_expect_command ==
    /\ Running /\ mock.expected < MaxExpected
    /\ \E command \in Commands :
           mock' = [mock EXCEPT
                        !.socket.expected_commands =
                            Append(@, [command |-> command, retval |-> 0]),
                        !.expected = @ + 1, !.commands = @ + 1,
                        !.op = "expect", !.arg = 0, !.ret = 0,
                        !.before = <<>>]
    /\ UNCHANGED <<persistence, ssl, tls, net>>

\* avs_unit_mocksock_fail_command__: the last expected command is to fail
Mock_fail_command ==
    /\ Running /\ mock.socket.expected_commands # <<>>
    /\ mock' = [mock EXCEPT
                    !.socket.expected_commands[
                        Len(mock.socket.expected_commands)].retval = -1,
                    !.op = "expect", !.arg = 0, !.ret = 0, !.before = <<>>]
    /\ UNCHANGED <<persistence, ssl, tls, net>>

\* avs_unit_mocksock_input__, _input_fail__, _expect_output__, _output_fail__
Mock_expect_data ==
    /\ Running /\ mock.expected < MaxExpected
    /\ \E data \in ExpectedData :
           mock' = [mock EXCEPT !.socket.expected_data = Append(@, data),
                                !.expected = @ + 1,
                                !.op = "expect", !.arg = 0, !.ret = 0,
                                !.before = <<>>]
    /\ UNCHANGED <<persistence, ssl, tls, net>>

\* a call: command calls that return are counted
MockCalled(op, arg, r) ==
    /\ Running
    /\ mock' = [mock EXCEPT
                    !.socket = r.socket,
                    !.calls = IF /\ r.exit \in {"returned", "undefined"}
                                 /\ op \notin {"send", "receive"}
                                 /\ mock.socket.expected_commands # <<>>
                              THEN @ + 1 ELSE @,
                    !.op = op, !.arg = arg, !.ret = r.ret, !.exit = r.exit,
                    !.before = mock.socket.expected_commands]
    /\ UNCHANGED <<persistence, ssl, tls, net>>

Mock_connect ==
    \E matches \in BOOLEAN :
        MockCalled("connect", 0, mock_connect(mock.socket, matches))

Mock_bind ==
    \E matches \in BOOLEAN :
        MockCalled("bind", 0, mock_bind(mock.socket, matches))

Mock_accept ==
    \E r \in mock_accept(mock.socket) : MockCalled("accept", 0, r)

Mock_close == MockCalled("close", 0, mock_close(mock.socket))

Mock_shutdown == MockCalled("shutdown", 0, mock_shutdown(mock.socket))

MockQueried(command, r) == MockCalled(command, 0, r)

Mock_query ==
    \E command \in Queries, matches \in BOOLEAN :
        MockQueried(command, mock_query(mock.socket, command, matches))

MockSent(n, r) == MockCalled("send", n, r)

Mock_send ==
    \E n \in BufferLengths, matches \in BOOLEAN :
        MockSent(n, mock_send(mock.socket, n, matches))

MockReceived(n, r) == MockCalled("receive", n, r)

Mock_receive ==
    \E n \in BufferLengths : MockReceived(n, mock_receive(mock.socket, n))

NextMock ==
    \/ Mock_expect_command
    \/ Mock_fail_command
    \/ Mock_expect_data
    \/ Mock_connect
    \/ Mock_bind
    \/ Mock_accept
    \/ Mock_close
    \/ Mock_shutdown
    \/ Mock_query
    \/ Mock_send
    \/ Mock_receive

SpecMock == InitMock /\ [][NextMock]_vars

\* ---- properties

\* the last call was a command call made with a command pending
CommandCall ==
    /\ mock.op \notin {"create", "expect", "send", "receive"}
    /\ mock.before # <<>>

\* the expected commands consumed so far
ConsumedCommands == mock.commands - Len(mock.socket.expected_commands)

\* what C37 says of a command call that returned
ConsumesHead ==
    /\ mock.ret = Head(mock.before).retval
    /\ mock.socket.expected_commands = Tail(mock.before)

\* C37: the expected commands are consumed first-in first-out, one per call:
\* every mocked command call (connect, bind, accept, shutdown, remote_host,
\* remote_port, get_opt, set_opt, and close while commands are pending)
\* returns the configured return value of the head of the queue and removes
\* exactly that entry, so that after k calls exactly k expectations have
\* been consumed.
C37_OneExpectationPerCall ==
    /\ (CommandCall /\ mock.exit = "returned") => ConsumesHead
    /\ mock.exit \in {"returned", "assert"} => ConsumedCommands = mock.calls
    /\ mock.exit \notin {"undefined", "crashed"}

\* C37, for every command call but accept
C37_OneExpectationPerCallButAccept ==
    (CommandCall /\ mock.exit = "returned" /\ mock.op # "accept")
        => ConsumesHead

\* C37, for the accept calls that return
C37_AcceptConsumesHead ==
    (mock.op = "accept" /\ mock.exit = "returned") => ConsumesHead

\* a query that returns the failure configured for it
C37_QueryWitness ==
    /\ mock.op = "GET_OPT" /\ mock.exit = "returned" /\ mock.ret = -1
    /\ mock.before = <<[command |-> "GET_OPT", retval |-> -1]>>
    /\ mock.socket.expected_commands = <<>>

\* C38: mock_send terminates for every non-empty expected-data queue and
\* every buffer length: each pass of its loop consumes at least one byte of
\* the caller's buffer, removes the head expectation or returns, whatever
\* the type of the head expectation (expected output, output failure, input
\* or input failure).
C38_SendTerminates ==
    mock.op = "send" => mock.exit # "spinning"

\* C38, for the heads that mock_send handles: a send that does not end has
\* bytes left to send and an input or an input failure at the head
C38_SendSpinsOnInputOnly ==
    (mock.op = "send" /\ mock.exit = "spinning") =>
        /\ mock.socket.expected_data # <<>>
        /\ Head(mock.socket.expected_data).type \in {"INPUT", "INPUT_FAIL"}

\* C38, when the head is expected output or an output failure each time
\* the loop looks at it
C38_SendOfOutputWitness ==
    /\ mock.op = "send" /\ mock.exit = "returned" /\ mock.arg = 3
    /\ mock.ret = -1 /\ mock.socket.expected_data = <<>> /\ mock.expected = 2

====
